---- MODULE Spec2Model ----
(***************************************************************************)
(* Verification model of the yang_gnmi_reports report generators:          *)
(*   - the resource-path extraction from raw test names,                   *)
(*   - generate_skeleton_dict and summarize_test_report (skeletons,        *)
(*     folding, status, regrouping), process_directory, build_hierarchy    *)
(*     (src/generate_html.py),                                             *)
(*   - the rows and overall result of the testcase report                  *)
(*     (src/generate_test_result1.py) and the keys of the log report       *)
(*     (src/process_log.py),                                               *)
(*   - the orchestration of the generators (src/integrated_report.py).     *)
(*                                                                         *)
(* Strings that the code inspects character by character (test names,      *)
(* paths, type keys) are sequences of one-character strings; the word      *)
(* "dependencies" is a single token of such a sequence.                    *)
(***************************************************************************)
EXTENDS Integers, Sequences, FiniteSets, TLC

VARIABLES
    pin,            \* path extraction: the two raw test names under comparison and how they were built
    pout,           \* path extraction: the two extraction results (<<>> until extracted)
    yaml,           \* summarizer: the loaded validation schema
    tc_result,      \* summarizer: the document-level fields of the loaded result document
    xpath_status,   \* summarizer: the report under construction (ordered dict path -> record)
    path_type_counters, \* summarizer: occurrence counter per (xpath, type key)
    result,         \* summarizer: <<the outcome of the current loop iteration>>, <<>> before the first
    folds,          \* summarizer: the update_skeleton_dict calls of the current iteration
    nresults,       \* summarizer: number of outcomes of data["results"] consumed
    spc,            \* summarizer: position ("idle", "loop", "done", "crashed")
    tree,           \* build_hierarchy: node (list of components) -> its "_data"
    visited,        \* build_hierarchy: the keys of data_obj processed so far, in order
    tpc,            \* build_hierarchy: position ("idle", "build")
    aggregated_report,  \* process_directory: the aggregated report (ordered dict)
    batch,          \* process_directory: the result files taken so far, in order
    mpc,            \* process_directory: position ("idle", "merge", "aborted")
    skel_args,      \* generate_skeleton_dict: the arguments of the call
    skel,           \* generate_skeleton_dict: <<the returned skeleton>>, <<>> before the call
    skel_pc,        \* generate_skeleton_dict: position ("idle", "call", "returned")
    combined_data,  \* reports: the result documents handed to dict_data_handling
    files_is_list,  \* reports: dict_data_handling got a list (as main passes) or a single dict
    log_content,    \* reports: the text of the run's log, one [TESTCASE-BEGIN] block per executed test
    testcase_data,  \* reports: parse_log_content's ordered dict unique key -> <<tc_id, block number>>
    nblocks,        \* reports: pieces of the split log consumed by parse_log_content
    detail_rows,    \* reports: the rows of the testcase report built so far
    test_id_counter,    \* reports: occurrences per test id seen by dict_data_handling
    deviation_failures, \* reports: dict_data_handling's counter of failed outcomes on deviation paths
    overall_result, \* reports: the overall result written into the template ("" before)
    rpc,            \* reports: position ("idle", "log", "rows", "rendered")
    mode,           \* integrated_report: "individual", "directory" or "none" (neither set of arguments)
    html_files,     \* integrated_report: per generator, the latest HTML file of its logs directory
    generators_run, \* integrated_report: the generator scripts started, with exit code and whether a report was written
    final_reports,  \* integrated_report: per generator, the file resolved as its report ("" before)
    consolidated_report, \* integrated_report: the consolidated report was written
    exit_status,    \* integrated_report: exit status of the process (-1 while it runs)
    opc             \* integrated_report: position ("idle", "args", a generator, "<generator>_report", "combine", "exited")

pathVars == <<pin, pout>>
treeVars == <<tree, visited, tpc>>
mergeVars == <<aggregated_report, batch, mpc>>
skelVars == <<skel_args, skel, skel_pc>>
reportVars == <<combined_data, files_is_list, log_content, testcase_data, nblocks, detail_rows, test_id_counter, deviation_failures, overall_result, rpc>>
orchVars == <<mode, html_files, generators_run, final_reports, consolidated_report, exit_status, opc>>
extVars == <<skelVars, reportVars, orchVars>>
sumVars == <<yaml, tc_result, xpath_status, path_type_counters, result, folds, nresults, spc>>

(***************************************************************************)
(* Generic sequence helpers.                                               *)
(***************************************************************************)
RECURSIVE Flatten(_)
Flatten(ss) == IF ss = <<>> THEN <<>> ELSE Head(ss) \o Flatten(Tail(ss))

HasAt(s, i, pat) ==
    /\ i >= 1
    /\ i + Len(pat) - 1 <= Len(s)
    /\ \A k \in 1..Len(pat) : s[i + k - 1] = pat[k]

Occurrences(s, pat) == {i \in 1..Len(s) : HasAt(s, i, pat)}

Slice(s, a, b) == IF a > b THEN <<>> ELSE SubSeq(s, a, b)

SetMax(S) == CHOOSE m \in S : \A n \in S : n <= m
SetMin(S) == CHOOSE m \in S : \A n \in S : m <= n

LArrow == <<"<", "-">>
RArrow == <<"-", ">">>
IsSpace(c) == c = " "

(***************************************************************************)
(* re.sub(r'.*<-\s*(.*?)\s*->\s*.*', r'\1', test_name)                     *)
(* The greedy prefix picks the last "<-" that still has a "->" after it;   *)
(* the lazy group ends before the whitespace in front of the first "->"    *)
(* that follows.  A name the pattern does not match is returned unchanged. *)
(***************************************************************************)
ArrowStarts(s) ==
    {i \in 1..Len(s) : HasAt(s, i, LArrow)
                       /\ \E q \in (i + 2)..Len(s) : HasAt(s, q, RArrow)}

RECURSIVE SkipSpaces(_, _)
SkipSpaces(s, p) == IF p <= Len(s) /\ IsSpace(s[p]) THEN SkipSpaces(s, p + 1) ELSE p

RECURSIVE BackSpaces(_, _, _)
BackSpaces(s, j, p) == IF j > p /\ IsSpace(s[j - 1]) THEN BackSpaces(s, j - 1, p) ELSE j

ReSubArrow(s) ==
    IF ArrowStarts(s) = {} THEN s
    ELSE LET i == SetMax(ArrowStarts(s))
             p == SkipSpaces(s, i + 2)
             q == SetMin({r \in p..Len(s) : HasAt(s, r, RArrow)})
             j == BackSpaces(s, q, p)
         IN  Slice(s, p, j - 1)

(***************************************************************************)
(* xpath_lookup: re.sub(r'\[.*?\]', '', xpath)                             *)
(***************************************************************************)
ClosingAfter(s, i) == {j \in (i + 1)..Len(s) : s[j] = "]"}

RECURSIVE StripFrom(_, _)
StripFrom(s, i) ==
    IF i > Len(s) THEN <<>>
    ELSE IF s[i] = "[" /\ ClosingAfter(s, i) # {}
         THEN StripFrom(s, SetMin(ClosingAfter(s, i)) + 1)
         ELSE <<s[i]>> \o StripFrom(s, i + 1)

XpathLookupKeep(s) == s

XpathLookup(s) == StripFrom(s, 1)

(***************************************************************************)
(* xpath_matches.split('/dependencies')[0] if 'dependencies' in            *)
(* xpath_matches else xpath_matches                                        *)
(***************************************************************************)
DepWord == "dependencies"
SlashDep == <<"/", DepWord>>

SplitDependenciesKeep(s) == s

SplitDependencies(s) ==
    IF \E i \in 1..Len(s) : s[i] = DepWord
    THEN LET cuts == {i \in 1..Len(s) : HasAt(s, i, SlashDep)}
         IN  IF cuts = {} THEN s ELSE Slice(s, 1, SetMin(cuts) - 1)
    ELSE s

(***************************************************************************)
(* Lines 352-360 of summarize_test_report: the resource path of a raw test *)
(* name, or the decision to skip the outcome (empty xpath_matches).        *)
(***************************************************************************)
ExtractXpath(test_name) ==
    LET xpath_matches == XpathLookup(ReSubArrow(test_name))
    IN  IF xpath_matches = <<>>
        THEN [skip |-> TRUE, xpath |-> <<>>]
        ELSE [skip |-> FALSE, xpath |-> SplitDependencies(xpath_matches)]

(***************************************************************************)
(* Raw test names for the path-extraction specification.  A name is        *)
(*    pre  "<-"  pad  segment  pad  "->"  post                             *)
(* (or pre segment post when it carries no delimiters); the segment is a   *)
(* sequence of literal pieces and bracketed predicates.                    *)
(***************************************************************************)
MaxPieces == 2

LitPieces == { <<"/", "a">>, <<"/", DepWord>> }
PredContents == { <<"x">>, <<"y", "[">> }
PieceSet == [kind : {"lit"}, text : LitPieces] \cup [kind : {"pred"}, text : PredContents]
SegForms == UNION { [1..n -> PieceSet] : n \in 0..MaxPieces }
Pres == { <<>>, <<"S", " ">> }
Pads == { <<>>, <<" ">> }
Posts == { <<"1">>, <<" ", "2">> }

PieceText(pc) == IF pc.kind = "pred" THEN <<"[">> \o pc.text \o <<"]">> ELSE pc.text
SegText(form) == Flatten([k \in 1..Len(form) |-> PieceText(form[k])])

RawName(n) ==
    IF n.arrow
    THEN n.pre \o LArrow \o n.pad \o SegText(n.form) \o n.pad \o RArrow \o n.post
    ELSE n.pre \o SegText(n.form) \o n.post

NameInputs ==
    [arrow : BOOLEAN, pre : Pres, pad : Pads, form : SegForms, post : Posts]

PathInit ==
    /\ \E a \in NameInputs, b \in NameInputs :
          /\ a.pre = b.pre
          /\ a.pad = b.pad
          /\ a.post = <<"1">>
          /\ pin = <<a, b>>
    /\ pout = <<>>

(* Apply the extraction of lines 352-360 to both names. *)
ExtractPaths ==
    /\ pin # <<>>
    /\ pout = <<>>
    /\ pout' = <<ExtractXpath(RawName(pin[1])), ExtractXpath(RawName(pin[2]))>>
    /\ UNCHANGED <<pin, sumVars, treeVars, mergeVars, extVars>>

PathIdle == pin = <<>> /\ pout = <<>>

(***************************************************************************)
(* Python dicts keep insertion order: a dict is a sequence of <<key,       *)
(* value>> pairs without repeated keys.                                    *)
(***************************************************************************)
DKeys(d) == {d[i][1] : i \in 1..Len(d)}
DHas(d, k) == \E i \in 1..Len(d) : d[i][1] = k
DGet(d, k) == d[CHOOSE i \in 1..Len(d) : d[i][1] = k][2]
DSet(d, k, v) ==
    IF DHas(d, k)
    THEN [i \in 1..Len(d) |-> IF d[i][1] = k THEN <<k, v>> ELSE d[i]]
    ELSE Append(d, <<k, v>>)
DPop(d, k) == SelectSeq(d, LAMBDA kv : kv[1] # k)

RECURSIVE DUpdate(_, _)
DUpdate(d, e) == IF e = <<>> THEN d ELSE DUpdate(DSet(d, Head(e)[1], Head(e)[2]), Tail(e))

KeySeq(d) == [i \in 1..Len(d) |-> d[i][1]]

(***************************************************************************)
(* Values the code treats as absent or empty.                              *)
(***************************************************************************)
None == "<None>"
Absent == "<absent>"
EmptyDict == "{}"
NoPath == <<>>      \* a record without a "full_path" key
NA == "NA"
OrNA(v) == IF v = "" THEN NA ELSE v

(***************************************************************************)
(* str.lower() on the current_status values the schemas use.               *)
(***************************************************************************)
Lower(st) == IF st = "Supported" THEN "supported" ELSE st

(***************************************************************************)
(* The validation schema (load_yaml): gnmi_operations.<op>.type is an      *)
(* ordered dict of type definitions, gnmi_operation_validations and        *)
(* validations are dicts.                                                  *)
(***************************************************************************)
ONCE == <<"ONCE">>
STREAM == <<"STREAM">>
OpKey == "Set_and_Get"

TypeDef(st, groups) == [current_status |-> st, operation_validations_sequence |-> groups]
GroupDef(st, keys) == [current_status |-> st, validations |-> keys]
ValDef(st, d, n) == [current_status |-> st, description |-> d, name |-> n]

SchemaFull ==
    [gnmi_operations |-> << <<OpKey, << <<ONCE, TypeDef("supported", <<"basic">>)>>,
                                        <<STREAM, TypeDef("Supported", <<"basic">>)>> >> >> >>,
     gnmi_operation_validations |-> << <<"basic", GroupDef("supported", <<"Status_Code", "Value">>)>> >>,
     validations |-> << <<"Status_Code", ValDef("supported", "HTTP-like status", "status")>>,
                        <<"Value", ValDef("supported", "value match", "value")>> >>]

SchemaGap ==
    [gnmi_operations |-> << <<OpKey, << <<ONCE, TypeDef("supported", <<"basic", "extra">>)>>,
                                        <<STREAM, TypeDef("not-supported", <<"basic">>)>> >> >> >>,
     gnmi_operation_validations |-> << <<"basic", GroupDef("supported", <<"Status_Code", "Value">>)>>,
                                       <<"extra", GroupDef("supported", <<"Status_Code">>)>> >>,
     validations |-> << <<"Status_Code", ValDef("supported", "HTTP-like status", "status")>>,
                        <<"Value", ValDef("not-supported", "value match", "value")>> >>]

Schemas == {SchemaFull, SchemaGap}

(***************************************************************************)
(* generate_skeleton_dict                                                  *)
(***************************************************************************)
initialize_type_structure(validations) ==
    [parent_key |-> validations, status |-> NA, message |-> <<>>, log |-> NA,
     gnmi_log |-> NA, test_log |-> NA, Compliance |-> <<>>, encoding |-> <<>>,
     total_validations |-> NA, ignored_validations |-> NA, failed_validations |-> NA,
     passed_validations |-> NA, coverage |-> NA, full_path |-> NoPath, new_log |-> Absent]

ComplianceEntry(k, v, d, n) == [vkey |-> k, verdict |-> v, description |-> d, key |-> n]

(* validations_in_json is None or a set; both None and the empty set are falsy. *)
NoKeySet == [none |-> TRUE, keys |-> {}]
KeySet(keys) == [none |-> FALSE, keys |-> keys]

FilterActive(validations_in_json) ==
    ~validations_in_json.none /\ validations_in_json.keys # {}

(* Lines 123-144: the entries one validation group contributes. *)
RECURSIVE GroupEntries(_, _, _, _)
GroupEntries(validation_list, main_validations, type_values, validations_in_json) ==
    IF validation_list = <<>> THEN <<>>
    ELSE LET val_key == Head(validation_list)
             rest == GroupEntries(Tail(validation_list), main_validations, type_values,
                                  validations_in_json)
             present == DHas(main_validations, val_key)
             val_current_status == IF present THEN DGet(main_validations, val_key).current_status
                                   ELSE "not-supported"
             val_data_description == IF present THEN DGet(main_validations, val_key).description
                                     ELSE ""
         IN  IF Lower(val_current_status) # "supported" THEN rest
             ELSE IF FilterActive(validations_in_json) /\ val_key \notin validations_in_json.keys
                  THEN rest
                  ELSE <<ComplianceEntry(val_key, EmptyDict, val_data_description, type_values)>>
                       \o rest

(* Lines 110-144: the Compliance list of a supported type. *)
RECURSIVE SequenceEntries(_, _, _, _, _)
SequenceEntries(sequence, groups, main_validations, type_values, validations_in_json) ==
    IF sequence = <<>> THEN <<>>
    ELSE LET validation_key == Head(sequence)
             rest == SequenceEntries(Tail(sequence), groups, main_validations, type_values,
                                     validations_in_json)
             validation_status == IF DHas(groups, validation_key)
                                  THEN DGet(groups, validation_key).current_status
                                  ELSE "not-supported"
         IN  IF Lower(validation_status) # "supported" THEN rest
             ELSE GroupEntries(DGet(groups, validation_key).validations, main_validations,
                               type_values, validations_in_json) \o rest

(* Lines 92-158: the loop over the types declared for the operation. *)
RECURSIVE SkeletonTypes(_, _, _, _, _, _, _)
SkeletonTypes(types, validations, type_keys, encoding_value, data, type_values, validations_in_json) ==
    IF types = <<>> THEN <<>>
    ELSE LET key == Head(types)[1]
             value == Head(types)[2]
             rest == SkeletonTypes(Tail(types), validations, type_keys, encoding_value, data,
                                   type_values, validations_in_json)
             base == initialize_type_structure(validations)
         IN  IF key \in type_keys
             THEN IF Lower(value.current_status) # "supported" THEN rest
                  ELSE << <<key,
                            [base EXCEPT
                               !.Compliance = SequenceEntries(value.operation_validations_sequence,
                                                  data.gnmi_operation_validations,
                                                  data.validations, type_values,
                                                  validations_in_json),
                               !.encoding = IF encoding_value # None
                                            THEN <<encoding_value>> ELSE <<>>]>> >> \o rest
             ELSE IF value.current_status = "not-supported" THEN rest
                  ELSE << <<key, base>> >> \o rest

generate_skeleton_dict(validations, type_keys, encoding_value, data, type_values, validations_in_json) ==
    LET types == IF DHas(data.gnmi_operations, validations)
                 THEN DGet(data.gnmi_operations, validations) ELSE <<>>
    IN  SkeletonTypes(types, validations, type_keys, encoding_value, data, type_values,
                      validations_in_json)

(* A call of generate_skeleton_dict on its own: the operation of the schema, *)
(* any list of type keys, with or without encoding, and validations_in_json *)
(* omitted (None) or a set of validation keys, the empty set included.      *)
ObservableKeys == {"Status_Code", "Value", "Latency"}

SkelInit ==
    /\ skel_args \in [data : Schemas,
                      type_keys : SUBSET {ONCE, STREAM},
                      encoding_value : {None, "JSON"},
                      validations_in_json : {NoKeySet} \cup {KeySet(ks) : ks \in SUBSET ObservableKeys}]
    /\ skel = <<>>
    /\ skel_pc = "call"

SkelIdle == skel_args = None /\ skel = <<>> /\ skel_pc = "idle"

GenerateSkeleton ==
    /\ skel_pc = "call"
    /\ skel_pc' = "returned"
    /\ skel' = <<generate_skeleton_dict(OpKey, skel_args.type_keys, skel_args.encoding_value,
                                        skel_args.data, "leaf", skel_args.validations_in_json)>>
    /\ UNCHANGED <<skel_args, pathVars, sumVars, treeVars, mergeVars, reportVars, orchVars>>

(***************************************************************************)
(* Instance keys: f"{type_key}_{type_count}" and re.sub(r'_\d+$', '', key) *)
(***************************************************************************)
Digits == <<"0", "1", "2", "3", "4", "5", "6", "7", "8", "9">>
IsDigit(c) == \E d \in 1..10 : Digits[d] = c

RECURSIVE Decimal(_)
Decimal(n) == IF n < 10 THEN <<Digits[n + 1]>> ELSE Decimal(n \div 10) \o <<Digits[(n % 10) + 1]>>

UniqueTypeKeyFromZero(type_key, type_count) ==
    IF type_count = 1 THEN type_key ELSE type_key \o <<"_">> \o Decimal(type_count - 1)

UniqueTypeKey(type_key, type_count) ==
    IF type_count = 1 THEN type_key ELSE type_key \o <<"_">> \o Decimal(type_count)

BaseType(key) ==
    LET cuts == {i \in 1..(Len(key) - 1) :
                    key[i] = "_" /\ \A j \in (i + 1)..Len(key) : IsDigit(key[j])}
    IN  IF cuts = {} THEN key ELSE Slice(key, 1, SetMin(cuts) - 1)

(***************************************************************************)
(* update_skeleton_dict                                                    *)
(***************************************************************************)
Truthy(validation_results) ==
    IF validation_results.isdict THEN validation_results.items # <<>>
    ELSE validation_results.str # ""

(* Lines 595-614 for one (comp_key, comp_value). *)
FoldVerdictAppendAlways(compliance_list, comp_key, comp_value, main_validations) ==
    Append(compliance_list,
           ComplianceEntry(comp_key, comp_value,
               IF DHas(main_validations, comp_key)
               THEN DGet(main_validations, comp_key).description ELSE "",
               IF DHas(main_validations, comp_key)
               THEN DGet(main_validations, comp_key).name ELSE ""))

FoldVerdict(compliance_list, comp_key, comp_value, main_validations) ==
    IF \E i \in 1..Len(compliance_list) : compliance_list[i].vkey = comp_key
    THEN LET first == SetMin({i \in 1..Len(compliance_list) :
                                 compliance_list[i].vkey = comp_key})
         IN  [compliance_list EXCEPT ![first].verdict = comp_value]
    ELSE Append(compliance_list,
                ComplianceEntry(comp_key, comp_value,
                    IF DHas(main_validations, comp_key)
                    THEN DGet(main_validations, comp_key).description ELSE "",
                    IF DHas(main_validations, comp_key)
                    THEN DGet(main_validations, comp_key).name ELSE ""))

RECURSIVE FoldVerdicts(_, _, _)
FoldVerdicts(compliance_list, items, main_validations) ==
    IF items = <<>> THEN compliance_list
    ELSE FoldVerdicts(FoldVerdict(compliance_list, Head(items)[1], Head(items)[2],
                                  main_validations),
                      Tail(items), main_validations)

(* Lines 578-614 for one (validation_name, validation_results) of an entry. *)
FoldResults(st, validation_results, entry, main_validations) ==
    LET rec1 == IF Truthy(validation_results)
                THEN [st.rec EXCEPT
                        !.message = <<>>,
                        !.log = OrNA(entry.log),
                        !.gnmi_log = OrNA(entry.gnmi_log),
                        !.test_log = OrNA(entry.test_log),
                        !.total_validations = OrNA(entry.total_validations),
                        !.ignored_validations = OrNA(entry.ignored_validations),
                        !.failed_validations = OrNA(entry.failed_validations),
                        !.passed_validations = OrNA(entry.passed_validations),
                        !.coverage = OrNA(entry.coverage)]
                ELSE st.rec
    IN  IF st.crash THEN st
        ELSE IF ~validation_results.isdict THEN [crash |-> TRUE, rec |-> rec1]
        ELSE [crash |-> FALSE,
              rec |-> [rec1 EXCEPT !.Compliance =
                          FoldVerdicts(rec1.Compliance, validation_results.items,
                                       main_validations)]]

(* The items of one validation dict of validation_list. *)
RECURSIVE FoldValidation(_, _, _, _)
FoldValidation(st, validation, entry, main_validations) ==
    IF validation = <<>> THEN st
    ELSE FoldValidation(FoldResults(st, Head(validation)[2], entry, main_validations),
                        Tail(validation), entry, main_validations)

(* Lines 577-614: the loop over validation_list. *)
RECURSIVE FoldValidationList(_, _, _, _)
FoldValidationList(st, validation_list, entry, main_validations) ==
    IF validation_list = <<>> THEN st
    ELSE FoldValidationList(FoldValidation(st, Head(validation_list), entry, main_validations),
                            Tail(validation_list), entry, main_validations)

(* operations is the outcome's validations block, validations its first key, *)
(* entry the last nested result entry the log strings and counters come from. *)
update_skeleton_dict(operations, skeleton_dict, entry, status, validations, type_key, main_validations, test_name, new_log, json_result) ==
    IF ~DHas(skeleton_dict, type_key)
    THEN [crash |-> TRUE, dict |-> skeleton_dict]              \* KeyError, line 554
    ELSE
    LET rec0 == [DGet(skeleton_dict, type_key) EXCEPT
                    !.full_path = test_name,
                    !.new_log = new_log,
                    !.status = IF json_result # None THEN json_result ELSE status]
        original_type_key == BaseType(type_key)
        types_dict == DGet(operations, validations).type
        encoding_value == DGet(operations, validations).encoding
    IN  IF ~DHas(types_dict, original_type_key)
        THEN [crash |-> FALSE, dict |-> DSet(skeleton_dict, type_key, rec0)]
        ELSE
        LET rec1 == IF encoding_value # None
                       /\ \A i \in 1..Len(rec0.encoding) : rec0.encoding[i] # encoding_value
                    THEN [rec0 EXCEPT !.encoding = Append(@, encoding_value)]
                    ELSE rec0
            folded == FoldValidationList([crash |-> FALSE, rec |-> rec1],
                                         DGet(types_dict, original_type_key), entry,
                                         main_validations)
        IN  [crash |-> folded.crash, dict |-> DSet(skeleton_dict, type_key, folded.rec)]

(***************************************************************************)
(* summarize_test_report: one iteration of the loop over data["results"].  *)
(***************************************************************************)
SummaryKey == <<"summary">>

Count(counters, k) == IF k \in DOMAIN counters THEN counters[k] ELSE 0
Increment(counters, k) ==
    [x \in DOMAIN counters \cup {k} |-> IF x = k THEN Count(counters, k) + 1 ELSE counters[x]]

(* test_name.split(' ')[0] *)
FirstWord(test_name) ==
    LET sp == {i \in 1..Len(test_name) : IsSpace(test_name[i])}
    IN  IF sp = {} THEN test_name ELSE Slice(test_name, 1, SetMin(sp) - 1)

(* Lines 364-370 *)
NewPathRecord(test_name) ==
    [test_name |-> FirstWord(test_name),
     deviation |-> [status |-> "No", message |-> "", log |-> ""],
     platform |-> [status |-> "NN", message |-> "", log |-> ""],
     status |-> [status |-> NA, message |-> <<>>, log |-> ""],
     skeleton |-> TRUE,
     types |-> <<>>,
     multiple_data |-> <<>>]

(* Lines 372-380 *)
SummaryRecord(doc) ==
    [tests_total_validations |-> doc.tests_total_validations,
     tests_passed_validations |-> doc.tests_passed_validations,
     tests_failed_validations |-> doc.tests_failed_validations,
     tests_ignored_validations |-> doc.tests_ignored_validations,
     tests_pass |-> doc.tests_pass,
     tests_total |-> doc.tests_total,
     tests_fail |-> doc.tests_fail]

(* Lines 409-414: the keys of every entry of every type of the block. *)
CurrentValidationKeys(type_data) ==
    {type_data[t][2][e][n][1] :
        <<t, e, n>> \in {x \in (1..Len(type_data)) \X (1..4) \X (1..4) :
                            /\ x[2] <= Len(type_data[x[1]][2])
                            /\ x[3] <= Len(type_data[x[1]][2][x[2]])}}

(* Line 406: next(iter(type_values[0][0].keys())) raises on an empty list or dict. *)
TypeValuesRaises(type_data) ==
    /\ type_data # <<>>
    /\ \/ type_data[1][2] = <<>>
       \/ type_data[1][2][1] = <<>>

TypeValues(type_data) == IF type_data = <<>> THEN None ELSE type_data[1][2][1][1][1]

(* The skeleton under its instance key: skeleton_dict[unique] = skeleton_dict.pop(type_key) *)
RenameKey(skeleton_dict, type_key, unique_type_key) ==
    IF DHas(skeleton_dict, type_key)
    THEN Append(DPop(skeleton_dict, type_key), <<unique_type_key, DGet(skeleton_dict, type_key)>>)
    ELSE skeleton_dict

(* Line 444: xpath_status[xpath].update(skeleton_dict) *)
MergeSkeleton(details, skeleton_dict) == DUpdate(details, skeleton_dict)

(* Lines 417-473 for one type_key.  st = [crash, types, counters, folds]; a  *)
(* fold is one update_skeleton_dict call: the instance key, the record it    *)
(* found under that key and the record it left there.                        *)
TypeKeyStep(st, type_key, res, xpath, schema) ==
    LET entry == res.results[Len(res.results)]
        operation == entry.validations
        validations == operation[1][1]
        type_data == operation[1][2].type
        type_count == Count(st.counters, <<xpath, type_key>>) + 1
        unique_type_key == UniqueTypeKey(type_key, type_count)
        fresh == ~DHas(st.types, unique_type_key)
        generated == RenameKey(
                        generate_skeleton_dict(validations, {type_key},
                                               operation[1][2].encoding, schema,
                                               TypeValues(type_data),
                                               KeySet(CurrentValidationKeys(type_data))),
                        type_key, unique_type_key)
        types1 == IF fresh THEN MergeSkeleton(st.types, generated) ELSE st.types
        skeleton_dict == IF fresh THEN generated ELSE st.types
        updated == update_skeleton_dict(operation, skeleton_dict, entry,
                                        IF res.success THEN "PASS" ELSE "FAIL",
                                        validations, unique_type_key, schema.validations,
                                        res.test_name, EmptyDict, entry.result)
    IN  IF st.crash THEN st
        ELSE [crash |-> updated.crash,
              types |-> DUpdate(types1, updated.dict),
              counters |-> Increment(st.counters, <<xpath, type_key>>),
              folds |-> IF updated.crash THEN st.folds
                        ELSE Append(st.folds,
                                    [type_key |-> type_key,
                                     unique_type_key |-> unique_type_key,
                                     before |-> DGet(skeleton_dict, unique_type_key),
                                     after |-> DGet(updated.dict, unique_type_key)])]

RECURSIVE TypeKeyLoop(_, _, _, _, _)
TypeKeyLoop(st, type_keys, res, xpath, schema) ==
    IF type_keys = <<>> THEN st
    ELSE TypeKeyLoop(TypeKeyStep(st, Head(type_keys), res, xpath, schema),
                     Tail(type_keys), res, xpath, schema)

(* Lines 475-494: the path's top-level status, deviation and platform marks. *)
OutcomeStatusPlatformFirst(success, xpath, doc) ==
    LET base == IF success THEN "PASS" ELSE "FAIL"
        platform == IF DHas(doc.platform_support, xpath)
                    THEN DGet(doc.platform_support, xpath) ELSE "NN"
        plat == IF platform \in {"NS", "NA"} THEN base \o "(P-" \o platform \o ")" ELSE base
    IN  IF xpath \in doc.deviations THEN plat \o "(D)" ELSE plat

OutcomeStatus(success, xpath, doc) ==
    LET base == IF success THEN "PASS" ELSE "FAIL"
        dev == IF xpath \in doc.deviations THEN base \o "(D)" ELSE base
        platform == IF DHas(doc.platform_support, xpath)
                    THEN DGet(doc.platform_support, xpath) ELSE "NN"
    IN  IF platform \in {"NS", "NA"} THEN dev \o "(P-" \o platform \o ")" ELSE dev

ApplyStatusAlways(details, success, xpath, doc) ==
    [details EXCEPT
        !.deviation = IF xpath \in doc.deviations
                      THEN [@ EXCEPT !.status = "Yes", !.message = "Deviation Path"] ELSE @,
        !.platform.status = IF DHas(doc.platform_support, xpath)
                            THEN DGet(doc.platform_support, xpath) ELSE "NN",
        !.status.status = OutcomeStatus(success, xpath, doc)]

ApplyStatus(details, success, xpath, doc) ==
    [details EXCEPT
        !.deviation = IF xpath \in doc.deviations
                      THEN [@ EXCEPT !.status = "Yes", !.message = "Deviation Path"] ELSE @,
        !.platform.status = IF DHas(doc.platform_support, xpath)
                            THEN DGet(doc.platform_support, xpath) ELSE "NN",
        !.status.status = IF @ # "FAIL" THEN OutcomeStatus(success, xpath, doc) ELSE @]

(* The whole iteration for outcome res: [skipped, crash, xs, counters, folds]. *)
Iteration(res, xs, counters, schema, doc) ==
    LET ex == ExtractXpath(res.test_name)
        xpath == ex.xpath
        xs1 == IF DHas(xs, xpath) THEN xs
               ELSE DSet(Append(xs, <<xpath, NewPathRecord(res.test_name)>>),
                         SummaryKey, SummaryRecord(doc))
        details == DGet(xs1, xpath)
        has_block == res.results # <<>> /\ res.results[Len(res.results)].validations # <<>>
        type_data == res.results[Len(res.results)].validations[1][2].type
        start == [crash |-> FALSE, types |-> details.types, counters |-> counters,
                  folds |-> <<>>]
        looped == IF ~has_block THEN start
                  ELSE IF TypeValuesRaises(type_data) THEN [start EXCEPT !.crash = TRUE]
                  ELSE TypeKeyLoop(start, KeySeq(type_data), res, xpath, schema)
        details1 == [details EXCEPT !.types = looped.types,
                                    !.skeleton = IF looped.folds # <<>> THEN FALSE ELSE @]
    IN  IF ex.skip
        THEN [skipped |-> TRUE, crash |-> FALSE, xs |-> xs, counters |-> counters,
              folds |-> <<>>]
        ELSE [skipped |-> FALSE, crash |-> looped.crash,
              xs |-> DSet(xs1, xpath, ApplyStatus(details1, res.success, xpath, doc)),
              counters |-> looped.counters, folds |-> looped.folds]

(***************************************************************************)
(* Lines 496-526: regrouping of repeated base types under multiple_data.   *)
(***************************************************************************)
RECURSIVE BaseOrder(_, _)
BaseOrder(type_keys, seen) ==
    IF type_keys = <<>> THEN <<>>
    ELSE LET b == BaseType(Head(type_keys))
         IN  IF b \in seen THEN BaseOrder(Tail(type_keys), seen)
             ELSE <<b>> \o BaseOrder(Tail(type_keys), seen \cup {b})

Instances(type_keys, base_type) == SelectSeq(type_keys, LAMBDA k : BaseType(k) = base_type)

RECURSIVE MoveInstancesKeepTop(_, _)
MoveInstancesKeepTop(st, instances) ==
    IF instances = <<>> THEN st
    ELSE MoveInstancesKeepTop([types |-> st.types,
                               multiple_data |-> DSet(st.multiple_data, Head(instances),
                                                      DGet(st.types, Head(instances)))],
                              Tail(instances))

RECURSIVE MoveInstances(_, _)
MoveInstances(st, instances) ==
    IF instances = <<>> THEN st
    ELSE MoveInstances([types |-> DPop(st.types, Head(instances)),
                        multiple_data |-> DSet(st.multiple_data, Head(instances),
                                               DGet(st.types, Head(instances)))],
                       Tail(instances))

RECURSIVE Regroup(_, _, _)
Regroup(st, bases, type_keys) ==
    IF bases = <<>> THEN st
    ELSE LET instances == Instances(type_keys, Head(bases))
             moved == MoveInstances(st, instances)
             first == DGet(moved.multiple_data, instances[1])
             rekeyed == [moved EXCEPT !.multiple_data =
                            DSet(DPop(@, instances[1]), Head(bases), first)]
         IN  Regroup(IF Len(instances) > 1 THEN rekeyed ELSE st, Tail(bases), type_keys)

FinalizePath(details) ==
    LET type_keys == KeySeq(details.types)
        st == Regroup([types |-> details.types, multiple_data |-> <<>>],
                      BaseOrder(type_keys, {}), type_keys)
    IN  [details EXCEPT !.types = st.types, !.multiple_data = st.multiple_data]

FinalizeAll(xs) ==
    [i \in 1..Len(xs) |->
        IF xs[i][1] = SummaryKey THEN xs[i] ELSE <<xs[i][1], FinalizePath(xs[i][2])>>]

(***************************************************************************)
(* Inputs of the summarizer: result documents.                             *)
(***************************************************************************)
MaxResults == 3

PathA == <<"/", "a">>
PathB == <<"/", "b">>

NameA1 == <<"<", "-", "/", "a", "-", ">", "1">>
NameA2 == <<"S", " ", "<", "-", " ", "/", "a", "[", "x", "]", " ", "-", ">", " ", "2">>
NameB == <<"<", "-", "/", "b", "-", ">", "1">>
NameBare == <<"t", "5">>
NameEmpty == <<"<", "-", "[", "x", "]", "-", ">">>

Verdicts(items) == [isdict |-> TRUE, items |-> items, str |-> ""]
Scalar(s) == [isdict |-> FALSE, items |-> <<>>, str |-> s]

(* The last nested result entry of an outcome. *)
LastEntry(text, inner, operation) ==
    [log |-> text, gnmi_log |-> text, test_log |-> "",
     total_validations |-> IF text = "" THEN "" ELSE "2",
     passed_validations |-> IF text = "" THEN "" ELSE "1",
     failed_validations |-> IF text = "" THEN "" ELSE "1",
     ignored_validations |-> "", coverage |-> IF text = "" THEN "" ELSE "50",
     result |-> inner, validations |-> operation]

Block(type_data, encoding) == << <<OpKey, [type |-> type_data, encoding |-> encoding]>> >>

BlockOnce ==
    Block(<< <<ONCE, << << <<"leaf", Verdicts(<< <<"Status_Code", "PASS">> >>)>> >> >> >> >>, None)
BlockStream ==
    Block(<< <<STREAM, << << <<"Status_Code", Verdicts(<< <<"Status_Code", "FAIL">>,
                                                          <<"Value", "PASS">> >>)>> >> >> >> >>,
          "JSON")
BlockBoth ==
    Block(<< <<ONCE, << << <<"leaf", Verdicts(<< <<"Value", "PASS">> >>)>> >> >> >>,
             <<STREAM, << << <<"leaf", Verdicts(<< <<"Status_Code", "PASS">> >>)>> >> >> >> >>,
          None)
BlockRepeat ==
    Block(<< <<ONCE, << << <<"Status_Code", Verdicts(<< <<"Status_Code", "PASS">> >>)>> >>,
                        << <<"Value", Verdicts(<< <<"Status_Code", "FAIL">>,
                                                  <<"Latency", "PASS">> >>)>> >> >> >> >>,
          "JSON")
BlockFlat ==
    Block(<< <<ONCE, << << <<"Status_Code", Scalar("PASS")>> >> >> >> >>, None)

Outcome(name, success, results) == [test_name |-> name, success |-> success, results |-> results]

Outcomes ==
    { Outcome(NameA1, s, l) : s \in BOOLEAN,
                              l \in { <<>>,
                                      <<LastEntry("log1", None, BlockOnce)>>,
                                      <<LastEntry("log2", "ABORTED", BlockStream)>>,
                                      <<LastEntry("", None, BlockBoth)>> } }
    \cup { Outcome(NameA2, TRUE, <<LastEntry("log3", None, BlockOnce)>>),
           Outcome(NameA2, FALSE, <<LastEntry("log4", None, BlockStream)>>),
           Outcome(NameA2, TRUE, <<LastEntry("log5", None, BlockRepeat)>>),
           Outcome(NameA2, TRUE, <<LastEntry("log6", None, BlockFlat)>>),
           Outcome(NameB, TRUE, <<LastEntry("log7", None, BlockOnce)>>),
           Outcome(NameB, FALSE, <<>>),
           Outcome(NameBare, FALSE, <<LastEntry("log8", None, BlockOnce)>>),
           Outcome(NameEmpty, FALSE, <<LastEntry("log9", None, BlockOnce)>>) }

(* The document-level fields of a result document (everything but "results"). *)
Document(deviations, platform_support) ==
    [deviations |-> deviations, platform_support |-> platform_support,
     tests_total_validations |-> 4, tests_passed_validations |-> 3,
     tests_failed_validations |-> 1, tests_ignored_validations |-> 0,
     tests_pass |-> 1, tests_total |-> 2, tests_fail |-> 1]

Documents ==
    { Document({}, <<>>),
      Document({PathA}, <<>>),
      Document({}, << <<PathA, "NS">> >>),
      Document({PathA}, << <<PathB, "S">>, <<PathA, "NA">> >>) }

SumInit ==
    /\ yaml \in Schemas
    /\ tc_result \in Documents
    /\ xpath_status = <<>>
    /\ path_type_counters = <<>>
    /\ result = <<>>
    /\ folds = <<>>
    /\ nresults = 0
    /\ spc = "loop"

SumIdle ==
    /\ yaml = None /\ tc_result = None /\ xpath_status = <<>> /\ path_type_counters = <<>>
    /\ result = <<>> /\ folds = <<>> /\ nresults = 0 /\ spc = "idle"

(* One iteration of the loop of lines 342-494 over the next outcome of the document. *)
SummarizeOutcome ==
    /\ spc = "loop"
    /\ nresults < MaxResults
    /\ \E res \in Outcomes :
          LET it == Iteration(res, xpath_status, path_type_counters, yaml, tc_result)
          IN  /\ result' = <<res>>
              /\ nresults' = nresults + 1
              /\ IF it.crash
                 THEN /\ spc' = "crashed"
                      /\ UNCHANGED <<xpath_status, path_type_counters, folds>>
                 ELSE /\ spc' = "loop"
                      /\ xpath_status' = it.xs
                      /\ path_type_counters' = it.counters
                      /\ folds' = it.folds
    /\ UNCHANGED <<yaml, tc_result, pathVars, treeVars, mergeVars, extVars>>

(* Lines 496-529: the results are exhausted; regroup and return. *)
Finalize ==
    /\ spc = "loop"
    /\ spc' = "done"
    /\ xpath_status' = FinalizeAll(xpath_status)
    /\ UNCHANGED <<yaml, tc_result, path_type_counters, result, folds, nresults, pathVars, treeVars, mergeVars, extVars>>

(***************************************************************************)
(* build_hierarchy.  The nested dict is keyed by cumulative paths, so a    *)
(* node is identified by its list of components; tree maps every existing  *)
(* node to its "_data" (the root, <<>>, only carries "_data" when line 763 *)
(* hits it).                                                               *)
(***************************************************************************)
NAData == <<"NA">>
ValueOf(full_path) == <<"value", full_path>>

RECURSIVE SplitOn(_, _)
SplitOn(s, sep) ==
    LET at == {i \in 1..Len(s) : HasAt(s, i, sep)}
    IN  IF at = {} THEN <<s>>
        ELSE <<Slice(s, 1, SetMin(at) - 1)>>
             \o SplitOn(Slice(s, SetMin(at) + Len(sep), Len(s)), sep)

RECURSIVE StripSpaces(_)
StripSpaces(s) ==
    IF s # <<>> /\ IsSpace(s[1]) THEN StripSpaces(Tail(s))
    ELSE IF s # <<>> /\ IsSpace(s[Len(s)]) THEN StripSpaces(Slice(s, 1, Len(s) - 1))
    ELSE s

(* [comp for comp in path.split("/") if comp] *)
Components(path) == SelectSeq(SplitOn(path, <<"/">>), LAMBDA comp : comp # <<>>)

Prefix(components, n) == Slice(components, 1, n)

(* get_node(tree, path) is not None *)
GetNodeExists(t, path) ==
    LET components == Components(path)
    IN  \A n \in 1..Len(components) : Prefix(components, n) \in DOMAIN t

SetData(t, node, d) == [x \in DOMAIN t \cup {node} |-> IF x = node THEN d ELSE t[x]]

(* Lines 774-784 for the node at accumulated_path. *)
VisitNodeKeepData(t, accumulated_path, is_last, value) ==
    IF accumulated_path \notin DOMAIN t
    THEN SetData(t, accumulated_path, IF is_last THEN value ELSE NAData)
    ELSE t

VisitNodeTerminalWins(t, accumulated_path, is_last, value) ==
    SetData(t, accumulated_path, IF is_last THEN value ELSE NAData)

VisitNode(t, accumulated_path, is_last, value) ==
    IF accumulated_path \notin DOMAIN t
    THEN SetData(t, accumulated_path, IF is_last THEN value ELSE NAData)
    ELSE IF ~is_last THEN SetData(t, accumulated_path, NAData) ELSE t

RECURSIVE Walk(_, _, _, _)
Walk(t, components, idx, value) ==
    IF idx > Len(components) THEN t
    ELSE Walk(VisitNode(t, Prefix(components, idx), idx = Len(components), value),
              components, idx + 1, value)

HasArrow(full_path) == Occurrences(full_path, RArrow) # {}
ArrowBase(full_path) == StripSpaces(SplitOn(full_path, RArrow)[1])

(* The arrow key is attached to an existing node (lines 759-764). *)
AttachesToBase(t, full_path) == HasArrow(full_path) /\ GetNodeExists(t, ArrowBase(full_path))

(* Lines 757-785 for one (full_path, value) of data_obj. *)
HierarchyStep(t, full_path, value) ==
    IF AttachesToBase(t, full_path)
    THEN SetData(t, Components(ArrowBase(full_path)), value)
    ELSE Walk(t, Components(StripSpaces(full_path)), 1, value)

(***************************************************************************)
(* Reports handed to build_hierarchy: the keys are taken in dict order.    *)
(***************************************************************************)
MaxKeys == 3

KeyA == <<"/", "a">>
KeyAB == <<"/", "a", "/", "b">>
KeyABC == <<"/", "a", "/", "b", "/", "c">>
KeyAC == <<"/", "a", "/", "c">>
KeyABAlias == <<"a", "/", "b", "/">>
KeyArrowAB == <<"/", "a", "/", "b", " ", "-", ">", " ", "x">>
KeyArrowD == <<"/", "d", " ", "-", ">", " ", "/", "e">>

TreeKeys == {KeyA, KeyAB, KeyABC, KeyAC, KeyABAlias, KeyArrowAB, KeyArrowD, SummaryKey}

TreeInit == tree = <<>> /\ visited = <<>> /\ tpc = "build"
TreeIdle == tree = <<>> /\ visited = <<>> /\ tpc = "idle"

Visited == {visited[i] : i \in 1..Len(visited)}

(* One iteration of the loop of line 757 over the next key of data_obj. *)
BuildStep ==
    /\ tpc = "build"
    /\ Len(visited) < MaxKeys
    /\ \E full_path \in TreeKeys \ Visited :
          /\ tree' = HierarchyStep(tree, full_path, ValueOf(full_path))
          /\ visited' = Append(visited, full_path)
    /\ UNCHANGED <<tpc, pathVars, sumVars, mergeVars, extVars>>

(***************************************************************************)
(* process_directory: the loop over the result documents of a directory    *)
(* (lines 196-243).  A summary metric is a JSON number or string.          *)
(***************************************************************************)
IntVal(n) == [isint |-> TRUE, n |-> n, s |-> <<>>]
StrVal(s) == [isint |-> FALSE, n |-> 0, s |-> s]

DigitValue(c) == CHOOSE d \in 0..9 : Digits[d + 1] = c

RECURSIVE ParseDigits(_, _)
ParseDigits(s, acc) ==
    IF s = <<>> THEN acc ELSE ParseDigits(Tail(s), 10 * acc + DigitValue(Head(s)))

(* int(v): [ok, n]; a string converts when it is a non-empty run of digits. *)
ToInt(v) ==
    IF v.isint THEN [ok |-> TRUE, n |-> v.n]
    ELSE IF v.s # <<>> /\ \A i \in 1..Len(v.s) : IsDigit(v.s[i])
         THEN [ok |-> TRUE, n |-> ParseDigits(v.s, 0)]
         ELSE [ok |-> FALSE, n |-> 0]

(* Lines 229-233 for one metric of a later document's summary. *)
MergeMetricOverwrite(summary, metric, metric_value) ==
    IF DHas(summary, metric) THEN DSet(summary, metric, metric_value) ELSE summary

MergeMetricCoerceZero(summary, metric, metric_value) ==
    IF DHas(summary, metric)
    THEN DSet(summary, metric,
              IntVal(ToInt(DGet(summary, metric)).n + ToInt(metric_value).n))
    ELSE summary

MergeMetric(summary, metric, metric_value) ==
    IF DHas(summary, metric)
       /\ ToInt(DGet(summary, metric)).ok
       /\ ToInt(metric_value).ok
    THEN DSet(summary, metric,
              IntVal(ToInt(DGet(summary, metric)).n + ToInt(metric_value).n))
    ELSE summary

RECURSIVE MergeSummary(_, _)
MergeSummary(summary, value) ==
    IF value = <<>> THEN summary
    ELSE MergeSummary(MergeMetric(summary, Head(value)[1], Head(value)[2]), Tail(value))

(* Lines 238-242: the first free key among key_1, key_2, ... *)
RECURSIVE FreeKey(_, _, _)
FreeKey(aggregated, key, i) ==
    LET new_key == key \o <<"_">> \o Decimal(i)
    IN  IF DHas(aggregated, new_key) THEN FreeKey(aggregated, key, i + 1) ELSE new_key

(* Lines 225-243 for one (key, value) of a report. *)
MergeKeyOverwrite(aggregated, key, value) ==
    IF key = SummaryKey
    THEN IF ~DHas(aggregated, SummaryKey) THEN DSet(aggregated, SummaryKey, value)
         ELSE DSet(aggregated, SummaryKey, MergeSummary(DGet(aggregated, SummaryKey), value))
    ELSE DSet(aggregated, key, value)

MergeKey(aggregated, key, value) ==
    IF key = SummaryKey
    THEN IF ~DHas(aggregated, SummaryKey) THEN DSet(aggregated, SummaryKey, value)
         ELSE DSet(aggregated, SummaryKey, MergeSummary(DGet(aggregated, SummaryKey), value))
    ELSE IF ~DHas(aggregated, key) THEN DSet(aggregated, key, value)
         ELSE DSet(aggregated, FreeKey(aggregated, key, 1), value)

(* Lines 224-243: the report of one document merged into the aggregate. *)
RECURSIVE MergeReport(_, _)
MergeReport(aggregated, report) ==
    IF report = <<>> THEN aggregated
    ELSE MergeReport(MergeKey(aggregated, Head(report)[1], Head(report)[2]), Tail(report))

(***************************************************************************)
(* Result documents of a directory.  A file either fails json.load (line   *)
(* 212), or makes summarize_test_report raise (e.g. no "labels", line      *)
(* 320), or yields a report: its path records in first-seen order with the *)
(* "summary" entry inserted right after the first path (lines 364-380); a  *)
(* document without any path record yields the empty report.              *)
(***************************************************************************)
MaxDocs == 3

PathA1 == <<"/", "a", "_", "1">>

SummaryOf(tests_total_validations, tests_pass, tests_total) ==
    << <<"tests_total_validations", tests_total_validations>>,
       <<"tests_passed_validations", tests_pass>>,
       <<"tests_failed_validations", IntVal(1)>>,
       <<"tests_ignored_validations", IntVal(0)>>,
       <<"tests_pass", tests_pass>>,
       <<"tests_total", tests_total>>,
       <<"tests_fail", IntVal(1)>> >>

PathRecordOf(name, path) == <<"record", name, path>>

ReportOf(name, paths, summary) ==
    IF paths = <<>> THEN <<>>
    ELSE << <<paths[1], PathRecordOf(name, paths[1])>>, <<SummaryKey, summary>> >>
         \o [i \in 1..(Len(paths) - 1) |-> <<paths[i + 1], PathRecordOf(name, paths[i + 1])>>]

ResultFile(name, readable, raises, report) ==
    [name |-> name, readable |-> readable, raises |-> raises, report |-> report]

ResultFiles ==
    { ResultFile("d1", TRUE, FALSE,
                 ReportOf("d1", <<PathA>>, SummaryOf(IntVal(4), IntVal(1), IntVal(2)))),
      ResultFile("d2", TRUE, FALSE,
                 ReportOf("d2", <<PathB, PathA>>, SummaryOf(IntVal(7), IntVal(3), IntVal(4)))),
      ResultFile("d3", TRUE, FALSE,
                 ReportOf("d3", <<PathA1, PathA>>, SummaryOf(IntVal(0), IntVal(0), IntVal(1)))),
      ResultFile("d4", TRUE, FALSE, ReportOf("d4", <<>>, <<>>)),
      ResultFile("d5", FALSE, FALSE, <<>>),
      ResultFile("d6", TRUE, TRUE, <<>>),
      ResultFile("d7", TRUE, FALSE,
                 ReportOf("d7", <<PathB>>, SummaryOf(StrVal(<<"x">>), IntVal(1), IntVal(1)))),
      ResultFile("d8", TRUE, FALSE,
                 ReportOf("d8", <<PathA>>, SummaryOf(StrVal(<<"1", "2">>), IntVal(2), IntVal(3)))) }

MergeInit == aggregated_report = <<>> /\ batch = <<>> /\ mpc = "merge"
MergeIdle == aggregated_report = <<>> /\ batch = <<>> /\ mpc = "idle"

Batched == {batch[i] : i \in 1..Len(batch)}

(* One iteration of the loop of line 196 whose file cannot be parsed (lines 210-215). *)
SkipUnreadable ==
    /\ mpc = "merge"
    /\ Len(batch) < MaxDocs
    /\ \E file \in ResultFiles \ Batched :
          /\ ~file.readable
          /\ batch' = Append(batch, file)
    /\ UNCHANGED <<aggregated_report, mpc, pathVars, sumVars, treeVars, extVars>>

(* One iteration whose summarize_test_report call raises (line 219 is not guarded). *)
SummarizerRaises ==
    /\ mpc = "merge"
    /\ Len(batch) < MaxDocs
    /\ \E file \in ResultFiles \ Batched :
          /\ file.readable
          /\ file.raises
          /\ batch' = Append(batch, file)
    /\ mpc' = "aborted"
    /\ UNCHANGED <<aggregated_report, pathVars, sumVars, treeVars, extVars>>

(* One iteration that summarizes the file and merges its report (lines 219-243). *)
MergeDocument ==
    /\ mpc = "merge"
    /\ Len(batch) < MaxDocs
    /\ \E file \in ResultFiles \ Batched :
          /\ file.readable
          /\ ~file.raises
          /\ aggregated_report' = MergeReport(aggregated_report, file.report)
          /\ batch' = Append(batch, file)
    /\ UNCHANGED <<mpc, pathVars, sumVars, treeVars, extVars>>

(***************************************************************************)
(* The testcase report (generate_test_result1.py, dict_data_handling) and  *)
(* the log report (process_log.py, parse_log_content) of one run.          *)
(* "<b>", "</b>" and "[TESTCASE-BEGIN]" are single tokens of a text.  The  *)
(* operation and log columns of a row depend on nothing modelled here and  *)
(* are left out.                                                           *)
(***************************************************************************)
HasBothArrows(s) == Occurrences(s, LArrow) # {} /\ Occurrences(s, RArrow) # {}

(* generate_test_result1.extract_xpath *)
extract_xpath(test_name) ==
    IF HasBothArrows(test_name)
    THEN StripFrom(StripSpaces(SplitOn(SplitOn(test_name, LArrow)[2], RArrow)[1]), 1)
    ELSE test_name

(* The test name as shown in the row: the segment between the arrows in bold. *)
BoldTestcase(test_name) ==
    IF HasBothArrows(test_name)
    THEN LET before == StripSpaces(SplitOn(test_name, LArrow)[1])
             bold_part == StripSpaces(SplitOn(SplitOn(test_name, LArrow)[2], RArrow)[1])
             after == StripSpaces(SplitOn(test_name, RArrow)[2])
         IN  before \o <<" ", "<", "-", " ", "<b>">> \o bold_part
                    \o <<"</b>", " ", "-", ">", " ">> \o after
    ELSE test_name

(* unique_test_id: the test id for its first occurrence, test_id_<count> after. *)
UniqueTestId(test_id, current_count) ==
    IF current_count = 1 THEN test_id ELSE test_id \o <<"_">> \o Decimal(current_count)

(* The deviation, platform and result columns of one outcome and whether it *)
(* counts as a deviation failure; the list branch and the dict branch       *)
(* differ in the failed case.                                               *)
ResultColumns(succeeded, xpath, doc, is_list) ==
    LET deviation_field == IF xpath \in doc.deviations THEN "Yes" ELSE "No"
        platform_val == IF DHas(doc.platform_support, xpath)
                        THEN DGet(doc.platform_support, xpath) ELSE "NA"
        platform_val1 == IF platform_val # "NA" THEN platform_val ELSE "Not Applicable"
        counted == ~succeeded /\ is_list /\ deviation_field = "Yes"
        deviation_shown == IF deviation_field = "Yes" /\ (succeeded \/ ~is_list)
                           THEN "Yes1" ELSE deviation_field
    IN  [deviation_field |-> deviation_shown,
         platform_val1 |-> platform_val1,
         deviation_failure |-> IF counted THEN 1 ELSE 0,
         result_field |->
            IF deviation_shown = "Yes" \/ platform_val \in {"NS", "NA"}
            THEN "PASS" \o "(D)" \o "(P-" \o platform_val1 \o ")"
            ELSE IF succeeded THEN "PASS" \o "(P-" \o platform_val1 \o ")"
            ELSE IF deviation_shown = "No" /\ platform_val = "S" THEN "FAIL"
            ELSE ""]

(* One iteration of the row loop for an outcome of document doc. *)
RowOf(res, doc, counter, is_list) ==
    LET testcase == BoldTestcase(res.test_name)
        xpath == extract_xpath(testcase)
        columns == ResultColumns(res.success, xpath, doc, is_list)
    IN  [test_id |-> res.test_id,
         unique_test_id |-> UniqueTestId(res.test_id, Count(counter, res.test_id) + 1),
         testcase |-> testcase,
         success |-> IF res.success THEN "PASS" ELSE "FAIL",
         deviation_field |-> columns.deviation_field,
         platform_val1 |-> columns.platform_val1,
         result_field |-> columns.result_field,
         deviation_failure |-> columns.deviation_failure]

(* int(re.findall(r'\d+', test_id)[0]): the first run of digits. *)
RECURSIVE DigitRun(_, _)
DigitRun(s, i) ==
    IF i <= Len(s) /\ IsDigit(s[i]) THEN <<s[i]>> \o DigitRun(s, i + 1) ELSE <<>>

SortKey(test_id) ==
    ParseDigits(DigitRun(test_id, SetMin({i \in 1..Len(test_id) : IsDigit(test_id[i])})), 0)

(* sorted(results, key=...): stable, ascending by the number in the test id. *)
RECURSIVE InsertSorted(_, _)
InsertSorted(sorted, res) ==
    IF sorted = <<>> THEN <<res>>
    ELSE IF SortKey(sorted[Len(sorted)].test_id) <= SortKey(res.test_id)
         THEN Append(sorted, res)
         ELSE Append(InsertSorted(Slice(sorted, 1, Len(sorted) - 1), res), sorted[Len(sorted)])

RECURSIVE SortedResults(_)
SortedResults(results) ==
    IF results = <<>> THEN <<>>
    ELSE InsertSorted(SortedResults(Slice(results, 1, Len(results) - 1)), results[Len(results)])

(* The (document, outcome) pairs in the order the row loops visit them. *)
RECURSIVE RowInputs(_)
RowInputs(docs) ==
    IF docs = <<>> THEN <<>>
    ELSE LET sorted == SortedResults(Head(docs).results)
         IN  [i \in 1..Len(sorted) |-> [doc |-> Head(docs), res |-> sorted[i]]]
             \o RowInputs(Tail(docs))

(* parse_log_content: re.search(r"(TC_\d+)", testcase) *)
TcPrefix == <<"T", "C", "_">>
TcIdStarts(testcase) ==
    {i \in 1..Len(testcase) :
        HasAt(testcase, i, TcPrefix) /\ i + 3 <= Len(testcase) /\ IsDigit(testcase[i + 3])}

TcId(testcase) ==
    TcPrefix \o DigitRun(testcase, SetMin(TcIdStarts(testcase)) + 3)

(* Lines 355-361: the first free key among tc_id, tc_id_1, tc_id_2, ... *)
RECURSIVE UniqueKeyFrom(_, _, _)
UniqueKeyFrom(data, tc_id, counter) ==
    LET unique_key == IF counter = 0 THEN tc_id ELSE tc_id \o <<"_">> \o Decimal(counter)
    IN  IF DHas(data, unique_key) THEN UniqueKeyFrom(data, tc_id, counter + 1) ELSE unique_key

UniqueKey(data, tc_id) == UniqueKeyFrom(data, tc_id, 0)

(***************************************************************************)
(* The inputs of a run: result documents with their metadata and outcomes, *)
(* and the log the same run wrote (a preamble, then one block per executed *)
(* test in execution order).                                               *)
(***************************************************************************)
MaxRows == 2

TestId(n) == TcPrefix \o Decimal(n)
TestBegin == "[TESTCASE-BEGIN]"

ReportOutcomes ==
    [test_id : {TestId(1), TestId(2)}, test_name : {NameA2, PathA}, success : BOOLEAN]

Metadata ==
    { [deviations |-> {}, platform_support |-> <<>>],
      [deviations |-> {PathA}, platform_support |-> <<>>],
      [deviations |-> {}, platform_support |-> << <<PathA, "S">> >>],
      [deviations |-> {}, platform_support |-> << <<PathA, "NS">> >>],
      [deviations |-> {}, platform_support |-> << <<PathA, "NA">> >>],
      [deviations |-> {}, platform_support |-> << <<PathA, "NN">> >>],
      [deviations |-> {PathA}, platform_support |-> << <<PathA, "S">> >>] }

ResultLists(n) == UNION {[1..k -> ReportOutcomes] : k \in 0..n}

ResultDocument(metadata, results) ==
    [deviations |-> metadata.deviations, platform_support |-> metadata.platform_support,
     results |-> results]

SecondDocuments ==
    { ResultDocument([deviations |-> {}, platform_support |-> <<>>],
                     <<[test_id |-> TestId(1), test_name |-> NameA2, success |-> FALSE]>>),
      ResultDocument([deviations |-> {PathA}, platform_support |-> << <<PathA, "S">> >>],
                     <<[test_id |-> TestId(1), test_name |-> PathA, success |-> TRUE]>>) }

RunInputs ==
    { <<ResultDocument(m, l)>> : m \in Metadata, l \in ResultLists(MaxRows) }
    \cup { <<ResultDocument(m, l), d>> : m \in Metadata, l \in ResultLists(1) \ {<<>>},
                                          d \in SecondDocuments }

RECURSIVE LogBlocks(_)
LogBlocks(results) ==
    IF results = <<>> THEN <<>>
    ELSE <<TestBegin, " ">> \o Head(results).test_id \o <<":", " ">> \o Head(results).test_name
         \o <<" ">> \o LogBlocks(Tail(results))

RECURSIVE LogOf(_)
LogOf(docs) == IF docs = <<>> THEN <<>> ELSE LogBlocks(Head(docs).results) \o LogOf(Tail(docs))

ReportInit ==
    /\ combined_data \in RunInputs
    /\ files_is_list \in (IF Len(combined_data) = 1 THEN BOOLEAN ELSE {TRUE})
    /\ log_content = <<" ">> \o LogOf(combined_data)
    /\ testcase_data = <<>>
    /\ nblocks = 0
    /\ detail_rows = <<>>
    /\ test_id_counter = <<>>
    /\ deviation_failures = 0
    /\ overall_result = ""
    /\ rpc = "log"

ReportIdle ==
    /\ combined_data = <<>> /\ files_is_list = TRUE /\ log_content = <<>> /\ testcase_data = <<>>
    /\ nblocks = 0 /\ detail_rows = <<>> /\ test_id_counter = <<>> /\ deviation_failures = 0
    /\ overall_result = "" /\ rpc = "idle"

(* process_log.py: one iteration of the loop over the pieces of the split log; *)
(* the log report is generated before the testcase report.                    *)
ParseTestcase ==
    /\ rpc = "log"
    /\ LET testcases == SplitOn(log_content, <<TestBegin>>)
           testcase == testcases[nblocks + 1]
       IN  /\ nblocks' = nblocks + 1
           /\ rpc' = IF nblocks + 1 = Len(testcases) THEN "rows" ELSE "log"
           /\ testcase_data' =
                 IF StripSpaces(testcase) = <<>> \/ TcIdStarts(testcase) = {}
                 THEN testcase_data
                 ELSE Append(testcase_data,
                             <<UniqueKey(testcase_data, TcId(testcase)),
                               <<TcId(testcase), nblocks>> >>)
    /\ UNCHANGED <<combined_data, files_is_list, log_content, detail_rows, test_id_counter, deviation_failures, overall_result>>
    /\ UNCHANGED <<pathVars, sumVars, treeVars, mergeVars, skelVars, orchVars>>

(* dict_data_handling: one iteration of the row loop. *)
DetailRow ==
    /\ rpc = "rows"
    /\ Len(detail_rows) < Len(RowInputs(combined_data))
    /\ LET input == RowInputs(combined_data)[Len(detail_rows) + 1]
           row == RowOf(input.res, input.doc, test_id_counter, files_is_list)
       IN  /\ detail_rows' = Append(detail_rows, row)
           /\ test_id_counter' = Increment(test_id_counter, input.res.test_id)
           /\ deviation_failures' = deviation_failures + row.deviation_failure
    /\ UNCHANGED <<combined_data, files_is_list, log_content, testcase_data, nblocks, overall_result, rpc>>
    /\ UNCHANGED <<pathVars, sumVars, treeVars, mergeVars, skelVars, orchVars>>

(* dict_data_handling: the rows are done, the overall result goes into the template. *)
OverallResult(failures) == IF failures > 0 THEN "PASS" ELSE "FAIL"

RenderReport ==
    /\ rpc = "rows"
    /\ Len(detail_rows) = Len(RowInputs(combined_data))
    /\ overall_result' = OverallResult(deviation_failures)
    /\ rpc' = "rendered"
    /\ UNCHANGED <<combined_data, files_is_list, log_content, testcase_data, nblocks, detail_rows, test_id_counter, deviation_failures>>
    /\ UNCHANGED <<pathVars, sumVars, treeVars, mergeVars, skelVars, orchVars>>

(***************************************************************************)
(* integrated_report.main.  A generator is a child process: it exits with  *)
(* a code and has or has not written its HTML report into its logs         *)
(* directory.  process_log.py prints the exception and ends normally when  *)
(* reading or rendering fails (its lines 448-465), so it can exit 0        *)
(* without a report; the other two scripts exit 0 only after writing.  A   *)
(* logs directory keeps the reports of earlier runs.                       *)
(***************************************************************************)
Generators == <<"process_log.py", "generate_test_result1.py", "generate_html.py">>
GeneratorSet == {Generators[i] : i \in 1..Len(Generators)}
ResolveStage(script) == script \o "_report"

ScriptOutcomes(script) ==
    {[returncode |-> 1, wrote_html |-> FALSE], [returncode |-> 0, wrote_html |-> TRUE]}
    \cup (IF script = "process_log.py" THEN {[returncode |-> 0, wrote_html |-> FALSE]} ELSE {})

NoReports == [g \in GeneratorSet |-> ""]

OrchInit ==
    /\ mode \in {"individual", "directory", "none"}
    /\ html_files \in [GeneratorSet -> {"none", "earlier run"}]
    /\ generators_run = <<>>
    /\ final_reports = NoReports
    /\ consolidated_report = FALSE
    /\ exit_status = -1
    /\ opc = "args"

OrchIdle ==
    /\ mode = "none" /\ html_files = NoReports /\ generators_run = <<>> /\ final_reports = NoReports
    /\ consolidated_report = FALSE /\ exit_status = -1 /\ opc = "idle"

(* Lines 182-215: neither --dir nor all of --log, --json, --yaml ends the process. *)
ParseArgs ==
    /\ opc = "args"
    /\ IF mode = "none"
       THEN opc' = "exited" /\ exit_status' = 1
       ELSE opc' = Generators[1] /\ exit_status' = exit_status
    /\ UNCHANGED <<mode, html_files, generators_run, final_reports, consolidated_report>>
    /\ UNCHANGED <<pathVars, sumVars, treeVars, mergeVars, skelVars, reportVars>>

(* Lines 8-20 with the call sites 223/225, 244, 263/267: run the generator  *)
(* the process has come to; a non-zero exit code ends the process.          *)
run_report_script ==
    /\ opc \in GeneratorSet
    /\ \E outcome \in ScriptOutcomes(opc) :
          /\ generators_run' = Append(generators_run,
                                      [script |-> opc, returncode |-> outcome.returncode,
                                       wrote_html |-> outcome.wrote_html])
          /\ html_files' = IF outcome.wrote_html THEN [html_files EXCEPT ![opc] = "this run"]
                           ELSE html_files
          /\ IF outcome.returncode # 0
             THEN opc' = "exited" /\ exit_status' = 1
             ELSE opc' = ResolveStage(opc) /\ exit_status' = exit_status
    /\ UNCHANGED <<mode, final_reports, consolidated_report>>
    /\ UNCHANGED <<pathVars, sumVars, treeVars, mergeVars, skelVars, reportVars>>

(* Lines 22-26 with 227-234, 245-252, 269-276: the latest HTML file of the  *)
(* generator's logs directory becomes its final report; none ends the       *)
(* process.                                                                 *)
get_latest_html_report ==
    /\ \E i \in 1..Len(Generators) :
          /\ opc = ResolveStage(Generators[i])
          /\ IF html_files[Generators[i]] = "none"
             THEN /\ opc' = "exited"
                  /\ exit_status' = 1
                  /\ final_reports' = final_reports
             ELSE /\ opc' = IF i < Len(Generators) THEN Generators[i + 1] ELSE "combine"
                  /\ exit_status' = exit_status
                  /\ final_reports' = [final_reports EXCEPT ![Generators[i]] = html_files[Generators[i]]]
    /\ UNCHANGED <<mode, html_files, generators_run, consolidated_report>>
    /\ UNCHANGED <<pathVars, sumVars, treeVars, mergeVars, skelVars, reportVars>>

(* Lines 281-284: the consolidated report is written and main returns. *)
combine_reports ==
    /\ opc = "combine"
    /\ consolidated_report' = TRUE
    /\ exit_status' = 0
    /\ opc' = "exited"
    /\ UNCHANGED <<mode, html_files, generators_run, final_reports>>
    /\ UNCHANGED <<pathVars, sumVars, treeVars, mergeVars, skelVars, reportVars>>

vars == <<pathVars, sumVars, treeVars, mergeVars, extVars>>

Init == SumInit /\ PathIdle /\ TreeIdle /\ MergeIdle /\ SkelIdle /\ ReportIdle /\ OrchIdle
Next == SummarizeOutcome \/ Finalize
Spec == Init /\ [][Next]_vars

InitPath == PathInit /\ SumIdle /\ TreeIdle /\ MergeIdle /\ SkelIdle /\ ReportIdle /\ OrchIdle
NextPath == ExtractPaths
SpecPath == InitPath /\ [][NextPath]_vars

InitTree == TreeInit /\ PathIdle /\ SumIdle /\ MergeIdle /\ SkelIdle /\ ReportIdle /\ OrchIdle
NextTree == BuildStep
SpecTree == InitTree /\ [][NextTree]_vars

InitMerge == MergeInit /\ PathIdle /\ SumIdle /\ TreeIdle /\ SkelIdle /\ ReportIdle /\ OrchIdle
NextMerge == SkipUnreadable \/ SummarizerRaises \/ MergeDocument
SpecMerge == InitMerge /\ [][NextMerge]_vars

InitSkeleton == SkelInit /\ PathIdle /\ SumIdle /\ TreeIdle /\ MergeIdle /\ ReportIdle /\ OrchIdle
NextSkeleton == GenerateSkeleton
SpecSkeleton == InitSkeleton /\ [][NextSkeleton]_vars

InitReports == ReportInit /\ PathIdle /\ SumIdle /\ TreeIdle /\ MergeIdle /\ SkelIdle /\ OrchIdle
NextReports == ParseTestcase \/ DetailRow \/ RenderReport
SpecReports == InitReports /\ [][NextReports]_vars

InitOrchestration == OrchInit /\ PathIdle /\ SumIdle /\ TreeIdle /\ MergeIdle /\ SkelIdle /\ ReportIdle
NextOrchestration == ParseArgs \/ run_report_script \/ get_latest_html_report \/ combine_reports
SpecOrchestration == InitOrchestration /\ [][NextOrchestration]_vars

(***************************************************************************)
(* Reference notions for the path claims, read off the way a name was      *)
(* built (not off the extraction code).                                    *)
(***************************************************************************)
(* The name holds exactly one "<-" and one "->", the "->" after the "<-". *)
OneDelimitedSegment(s) ==
    /\ Cardinality(Occurrences(s, LArrow)) = 1
    /\ Cardinality(Occurrences(s, RArrow)) = 1
    /\ ArrowStarts(s) # {}

(* The two names differ at most in predicate contents and in the text after "->". *)
SameShape(a, b) ==
    /\ a.arrow /\ b.arrow
    /\ a.pre = b.pre /\ a.pad = b.pad
    /\ Len(a.form) = Len(b.form)
    /\ \A k \in 1..Len(a.form) :
          /\ a.form[k].kind = b.form[k].kind
          /\ a.form[k].kind = "lit" => a.form[k].text = b.form[k].text

(* The segment with its predicates dropped: the literal pieces in order. *)
RECURSIVE LitsOf(_)
LitsOf(form) ==
    IF form = <<>> THEN <<>>
    ELSE IF Head(form).kind = "lit" THEN <<Head(form).text>> \o LitsOf(Tail(form))
         ELSE LitsOf(Tail(form))

StrippedSegment(n) == Flatten(LitsOf(n.form))

(* The literal pieces in front of the first "/dependencies" piece. *)
RECURSIVE LitsBeforeDep(_)
LitsBeforeDep(lits) ==
    IF lits = <<>> \/ Head(lits) = SlashDep THEN <<>>
    ELSE <<Head(lits)>> \o LitsBeforeDep(Tail(lits))

TruncatedSegment(n) == Flatten(LitsBeforeDep(LitsOf(n.form)))

Extracted == pout # <<>>
BothKept == Extracted /\ pin[1].arrow /\ pin[2].arrow /\ ~pout[1].skip /\ ~pout[2].skip

(* C5: two raw test names that each hold exactly one "<-"/"->" delimited     *)
(* segment and differ only in the content of bracketed predicates and in    *)
(* the text after "->" yield the same extraction result.                    *)
C5_PathExtractionDeterminism ==
    (/\ Extracted
     /\ SameShape(pin[1], pin[2])
     /\ OneDelimitedSegment(RawName(pin[1]))
     /\ OneDelimitedSegment(RawName(pin[2])))
    => pout[1] = pout[2]

C5_Witness ==
    /\ Extracted
    /\ SameShape(pin[1], pin[2])
    /\ OneDelimitedSegment(RawName(pin[1]))
    /\ OneDelimitedSegment(RawName(pin[2]))
    /\ \E k \in 1..Len(pin[1].form) :
          pin[1].form[k].kind = "pred" /\ pin[1].form[k].text # pin[2].form[k].text
    /\ pin[1].post # pin[2].post
    /\ ~pout[1].skip
    /\ pout[1].xpath = <<"/", "a">>
    /\ pout[2] = pout[1]

(* C6 as claimed: two names with a delimited segment, neither skipped, get  *)
(* the same ResourcePath key if and only if their segments are identical    *)
(* after bracket-stripping.                                                 *)
C6_SameKeyIffSameStrippedSegment ==
    BothKept =>
        ((pout[1].xpath = pout[2].xpath) <=> (StrippedSegment(pin[1]) = StrippedSegment(pin[2])))

(* C6 amended: two names with a delimited segment, neither skipped, get the *)
(* same ResourcePath key if and only if their segments are identical after  *)
(* bracket-stripping and after cutting each at its first "/dependencies".   *)
C6_SameKeyIffSameTruncatedSegment ==
    BothKept =>
        ((pout[1].xpath = pout[2].xpath) <=> (TruncatedSegment(pin[1]) = TruncatedSegment(pin[2])))

C6_Witness ==
    /\ BothKept
    /\ StrippedSegment(pin[1]) # StrippedSegment(pin[2])
    /\ \E k \in 1..Len(pin[1].form) : pin[1].form[k].text = SlashDep
    /\ pout[1].xpath = <<"/", "a">>
    /\ pout[2].xpath = pout[1].xpath

(***************************************************************************)
(* Hierarchy claims.                                                       *)
(***************************************************************************)
NodeOf(full_path) == Components(StripSpaces(full_path))

ProperPrefix(p, q) == Len(p) >= 1 /\ Len(p) < Len(q) /\ Prefix(q, Len(p)) = p

PlainReport == \A k \in Visited : ~HasArrow(k)

(* No other key of the report ends at or below the node of key q. *)
TerminalOnly(q) ==
    \A r \in Visited \ {q} : NodeOf(r) # NodeOf(q) /\ ~ProperPrefix(NodeOf(q), NodeOf(r))

(* C8: for a report of plain path keys, in every processing order: when key *)
(* P is a proper segment-prefix of key Q (and no further key ends at or     *)
(* below Q's node), every node that is a proper prefix of Q, P's node       *)
(* included, has _data "NA" and Q's node carries Q's record.                *)
C8_PrefixNodesNATerminalRecord ==
    PlainReport =>
        \A p \in Visited, q \in Visited :
            (ProperPrefix(NodeOf(p), NodeOf(q)) /\ TerminalOnly(q)) =>
                /\ \A n \in 1..(Len(NodeOf(q)) - 1) : tree[Prefix(NodeOf(q), n)] = NAData
                /\ tree[NodeOf(q)] = ValueOf(q)

C8_Witness ==
    /\ visited = <<KeyAB, KeyABC>>
    /\ tree[NodeOf(KeyAB)] = NAData
    /\ tree[NodeOf(KeyABC)] = ValueOf(KeyABC)

(* The step handles key k by the walk of lines 767-785 and k's path ends at *)
(* a node that already exists as an intermediate node.                      *)
TerminalVisitOfIntermediate(k) ==
    /\ visited' = Append(visited, k)
    /\ ~AttachesToBase(tree, k)
    /\ NodeOf(k) \in DOMAIN tree
    /\ tree[NodeOf(k)] = NAData

Paths(xs) == DKeys(xs) \ {SummaryKey}
TypesOf(xs, xpath) == DGet(xs, xpath).types
TopStatus(xs, xpath) == DGet(xs, xpath).status.status

(* A record that some outcome was folded into (update_skeleton_dict sets full_path). *)
Populated(rec) == rec.full_path # NoPath

(* The outcome of the iteration just run, its path and the type keys of its block. *)
Current == result[1]
CurrentPath == ExtractXpath(Current.test_name)
HasBlock(res) == res.results # <<>> /\ res.results[Len(res.results)].validations # <<>>
BlockTypes(res) == res.results[Len(res.results)].validations[1][2].type
IterationDone == spc = "loop" /\ result # <<>>

C2_StickyFail ==
    [][\A xpath \in Paths(xpath_status) :
          TopStatus(xpath_status, xpath) = "FAIL" =>
              /\ DHas(xpath_status', xpath)
              /\ TopStatus(xpath_status', xpath) = "FAIL"]_vars

(* A succeeding outcome was just processed for a path that already had failed. *)
C2_Witness ==
    /\ IterationDone
    /\ Current.success
    /\ ~CurrentPath.skip
    /\ nresults >= 2
    /\ TopStatus(xpath_status, CurrentPath.xpath) = "FAIL"

(* C3: after exactly three outcomes, all for one path and all with the one  *)
(* type key ONCE, the path holds the instance keys ONCE, ONCE_1, ONCE_2 in  *)
(* this order, and after finalization multiple_data has exactly these keys. *)
ThreeOnceOutcomes(xpath) ==
    /\ nresults = 3
    /\ Count(path_type_counters, <<xpath, ONCE>>) = 3
    /\ Count(path_type_counters, <<xpath, STREAM>>) = 0
    /\ spc \in {"loop", "done"}

C3_KeysOnceOnce1Once2 ==
    \A xpath \in Paths(xpath_status) :
        ThreeOnceOutcomes(xpath) =>
            /\ spc = "loop" =>
                  Instances(KeySeq(TypesOf(xpath_status, xpath)), ONCE)
                     = <<ONCE, ONCE \o <<"_", "1">>, ONCE \o <<"_", "2">> >>
            /\ spc = "done" =>
                  DKeys(DGet(xpath_status, xpath).multiple_data)
                     = {ONCE, ONCE \o <<"_", "1">>, ONCE \o <<"_", "2">>}

(* C4: the N-th outcome of a document that references a (path, type key) is *)
(* folded under the bare type key for N = 1 and under typeKey_N for N > 1;  *)
(* the keys of the occurrences 1..N all exist under the path and are        *)
(* pairwise distinct, and a typeKey_N record holds that outcome.            *)
InstanceKey(type_key, n) == IF n = 1 THEN type_key ELSE type_key \o <<"_">> \o Decimal(n)

NoDelimiterPattern(test_name) ==
    ~\E i \in 1..Len(test_name), q \in 1..Len(test_name) :
        HasAt(test_name, i, LArrow) /\ q >= i + 2 /\ HasAt(test_name, q, RArrow)

C7_NoPatternSkipped ==
    [][\A res \in Outcomes :
          (spc = "loop" /\ result' = <<res>> /\ nresults' = nresults + 1
             /\ NoDelimiterPattern(res.test_name)) =>
              /\ xpath_status' = xpath_status
              /\ path_type_counters' = path_type_counters
              /\ spc' = "loop"]_vars

(* C10: after update_skeleton_dict folded a verdict block into a record,    *)
(* the Compliance list holds, for every validation key of the block, an     *)
(* entry with the verdict supplied for it (the last one when the block      *)
(* names the key more than once); entries that existed are overwritten in   *)
(* place and exactly one entry is appended per key that did not exist.      *)
RECURSIVE BlockItems(_)
BlockItems(validation_list) ==
    IF validation_list = <<>> THEN <<>>
    ELSE Flatten([n \in 1..Len(Head(validation_list)) |-> Head(validation_list)[n][2].items])
         \o BlockItems(Tail(validation_list))

SuppliedKeys(items) == {items[i][1] : i \in 1..Len(items)}
LastVerdict(items, k) == items[SetMax({i \in 1..Len(items) : items[i][1] = k})][2]
EntryKeys(compliance_list) == {compliance_list[i].vkey : i \in 1..Len(compliance_list)}

C10_ComplianceComplete ==
    (IterationDone /\ ~CurrentPath.skip /\ HasBlock(Current)) =>
        \A i \in 1..Len(folds) :
            LET items == BlockItems(DGet(BlockTypes(Current), folds[i].type_key))
                before == folds[i].before.Compliance
                after == folds[i].after.Compliance
            IN  /\ \A k \in SuppliedKeys(items) :
                      /\ \E e \in 1..Len(after) : after[e].vkey = k
                      /\ after[SetMin({e \in 1..Len(after) : after[e].vkey = k})].verdict
                            = LastVerdict(items, k)
                /\ Len(after) = Len(before) + Cardinality(SuppliedKeys(items) \ EntryKeys(before))
                /\ \A e \in 1..Len(before) :
                      /\ after[e].vkey = before[e].vkey
                      /\ after[e].description = before[e].description
                      /\ after[e].key = before[e].key
                      /\ before[e].vkey \notin SuppliedKeys(items) => after[e] = before[e]

(* A fold that overwrote a seeded entry in place and appended a new one. *)
C10_Witness ==
    /\ IterationDone
    /\ Len(folds) = 1
    /\ Len(folds[1].before.Compliance) = 1
    /\ folds[1].before.Compliance[1].vkey = "Status_Code"
    /\ folds[1].before.Compliance[1].verdict = EmptyDict
    /\ Len(folds[1].after.Compliance) = 2
    /\ folds[1].after.Compliance[1].verdict = "FAIL"
    /\ folds[1].after.Compliance[2].vkey = "Value"
    /\ folds[1].after.Compliance[2].verdict = "PASS"

(***************************************************************************)
(* The end-to-end example: a schema with one supported operation, type,    *)
(* group and validation key, and the document whose single successful      *)
(* outcome carries the verdict block {op: {type: {ONCE: [{key: verdict}]}}}.*)
(***************************************************************************)
SchemaOne ==
    [gnmi_operations |-> << <<OpKey, << <<ONCE, TypeDef("supported", <<"basic">>)>> >> >> >>,
     gnmi_operation_validations |-> << <<"basic", GroupDef("supported", <<"Status_Code">>)>> >>,
     validations |-> << <<"Status_Code", ValDef("supported", "HTTP-like status", "status")>> >>]

InitOne ==
    /\ yaml = SchemaOne
    /\ tc_result \in {Document({}, <<>>), Document({PathA}, <<>>)}
    /\ xpath_status = <<>>
    /\ path_type_counters = <<>>
    /\ result = <<>>
    /\ folds = <<>>
    /\ nresults = 0
    /\ spc = "loop"
    /\ PathIdle
    /\ TreeIdle
    /\ MergeIdle
    /\ SkelIdle
    /\ ReportIdle
    /\ OrchIdle

SpecOne == InitOne /\ [][Next]_vars

FlatOutcome == Outcome(NameA2, TRUE, <<LastEntry("log6", None, BlockFlat)>>)

(* C11: for the one-of-each schema and a document with the single          *)
(* successful outcome whose block is {op: {type: {ONCE: [{Status_Code:     *)
(* "PASS"}]}}}, summarization completes and the record of the outcome's    *)
(* path holds under ONCE the status "PASS" and a Compliance list with      *)
(* exactly one entry, carrying that verdict and the schema's description.  *)
C11_EndToEndExample ==
    (nresults = 1 /\ result = <<FlatOutcome>>) =>
        /\ spc \in {"loop", "done"}
        /\ DHas(xpath_status, PathA)
        /\ DHas(TypesOf(xpath_status, PathA), ONCE)
        /\ LET rec == DGet(TypesOf(xpath_status, PathA), ONCE)
           IN  /\ rec.status = "PASS"
               /\ Len(rec.Compliance) = 1
               /\ rec.Compliance[1].vkey = "Status_Code"
               /\ rec.Compliance[1].verdict = "PASS"
               /\ rec.Compliance[1].description = "HTTP-like status"

(***************************************************************************)
(* Merge claims (process_directory).                                       *)
(***************************************************************************)
MetricNames ==
    {"tests_total_validations", "tests_passed_validations", "tests_failed_validations",
     "tests_ignored_validations", "tests_pass", "tests_total", "tests_fail"}

(* The files of the batch whose report was merged and carries a summary. *)
Merged(files) == SelectSeq(files, LAMBDA f : f.readable /\ ~f.raises)
WithSummary(files) == SelectSeq(Merged(files), LAMBDA f : DHas(f.report, SummaryKey))
AllInteger(files) ==
    \A i \in 1..Len(files) :
        DHas(files[i].report, SummaryKey) =>
            \A m \in MetricNames : DGet(DGet(files[i].report, SummaryKey), m).isint

RECURSIVE SumOf(_, _)
SumOf(files, metric) ==
    IF files = <<>> THEN 0
    ELSE DGet(DGet(Head(files).report, SummaryKey), metric).n + SumOf(Tail(files), metric)

NonSummaryKeys(d) == DKeys(d) \ {SummaryKey}

(* C12: when the summary counters of all merged documents are integers,    *)
(* every total of the aggregated summary is the arithmetic sum of the      *)
(* documents' counters, however the documents are grouped: the aggregate   *)
(* of [A,B] with [C] merged into it carries the totals of [A,B,C].         *)
C12_SummaryTotalsAreSums ==
    (AllInteger(batch) /\ WithSummary(batch) # <<>>) =>
        /\ DHas(aggregated_report, SummaryKey)
        /\ \A m \in MetricNames :
              DGet(DGet(aggregated_report, SummaryKey), m) = IntVal(SumOf(WithSummary(batch), m))

C12_Witness ==
    /\ Len(WithSummary(batch)) = 3
    /\ AllInteger(batch)
    /\ DGet(DGet(aggregated_report, SummaryKey), "tests_total_validations") = IntVal(11)
    /\ DGet(DGet(aggregated_report, SummaryKey), "tests_total") = IntVal(7)

(* C13: merging a document never overwrites a path record: every record    *)
(* of the aggregate stays under its key; a path of the document that is    *)
(* free is stored under the bare key, and one that is taken is stored      *)
(* under the first free key of path_1, path_2, ...; so the number of       *)
(* non-summary keys grows by the number of non-summary keys of the report. *)
StoredUnder(aggregated, new, key, value) ==
    IF ~DHas(aggregated, key)
    THEN DHas(new, key) /\ DGet(new, key) = value
    ELSE \E i \in 1..(2 * MaxDocs + 1) :
            LET new_key == key \o <<"_">> \o Decimal(i)
            IN  /\ ~DHas(aggregated, new_key)
                /\ DHas(new, new_key)
                /\ DGet(new, new_key) = value
                /\ \A j \in 1..(i - 1) : DHas(new, key \o <<"_">> \o Decimal(j))

C13_MergeNeverOverwrites ==
    [][\A file \in ResultFiles :
          (batch' = Append(batch, file) /\ file.readable /\ ~file.raises) =>
              /\ \A k \in NonSummaryKeys(aggregated_report) :
                    /\ DHas(aggregated_report', k)
                    /\ DGet(aggregated_report', k) = DGet(aggregated_report, k)
              /\ \A k \in NonSummaryKeys(file.report) :
                    StoredUnder(aggregated_report, aggregated_report', k, DGet(file.report, k))
              /\ Cardinality(NonSummaryKeys(aggregated_report'))
                    = Cardinality(NonSummaryKeys(aggregated_report))
                      + Cardinality(NonSummaryKeys(file.report))]_vars

(* Three documents that all report /a: the records sit under /a, /a_2, /a_3 *)
(* (/a_1 is a path of the second document itself).                          *)
C13_Witness ==
    /\ Len(batch) = 3
    /\ DHas(aggregated_report, PathA)
    /\ DGet(aggregated_report, PathA) = PathRecordOf("d1", PathA)
    /\ DHas(aggregated_report, PathA \o <<"_", "2">>)
    /\ DGet(aggregated_report, PathA \o <<"_", "2">>) = PathRecordOf("d3", PathA)
    /\ DHas(aggregated_report, PathA \o <<"_", "3">>)
    /\ DGet(aggregated_report, PathA \o <<"_", "3">>) = PathRecordOf("d2", PathA)
    /\ Cardinality(NonSummaryKeys(aggregated_report)) = 5

(* C16: no result document aborts the batch: whatever file the loop takes, *)
(* unparsable or making the summarizer fail, the loop goes on.             *)
C16_NoDocumentAbortsBatch ==
    [][\A file \in ResultFiles :
          (mpc = "merge" /\ batch' = Append(batch, file)) => mpc' = "merge"]_vars

(***************************************************************************)
(* Schema support, graceful degradation, regrouping, status base.          *)
(***************************************************************************)
IsSupported(def) == Lower(def.current_status) = "supported"

SchemaTypes(schema) ==
    IF DHas(schema.gnmi_operations, OpKey) THEN DGet(schema.gnmi_operations, OpKey) ELSE <<>>

TypeSupported(schema, type_key) ==
    DHas(SchemaTypes(schema), type_key) /\ IsSupported(DGet(SchemaTypes(schema), type_key))

(* The validation key, one of its groups in the type's sequence, and the type are supported. *)
SupportedChain(schema, type_key, vkey) ==
    /\ TypeSupported(schema, type_key)
    /\ DHas(schema.validations, vkey)
    /\ IsSupported(DGet(schema.validations, vkey))
    /\ LET sequence == DGet(SchemaTypes(schema), type_key).operation_validations_sequence
       IN  \E g \in 1..Len(sequence) :
              /\ DHas(schema.gnmi_operation_validations, sequence[g])
              /\ IsSupported(DGet(schema.gnmi_operation_validations, sequence[g]))
              /\ \E v \in 1..Len(DGet(schema.gnmi_operation_validations, sequence[g]).validations) :
                    DGet(schema.gnmi_operation_validations, sequence[g]).validations[v] = vkey

(* All type-instance records of a path record, regrouped or not. *)
InstanceRecords(details) == details.types \o details.multiple_data

(* C14: every ComplianceEntry of every type-instance record of the output  *)
(* belongs to a validation key that is supported in the schema, in a       *)
(* supported group of a supported type.                                    *)
C14_OnlySupportedValidations ==
    \A xpath \in Paths(xpath_status) :
        LET records == InstanceRecords(DGet(xpath_status, xpath))
        IN  \A r \in 1..Len(records) :
               \A e \in 1..Len(records[r][2].Compliance) :
                  SupportedChain(yaml, BaseType(records[r][1]), records[r][2].Compliance[e].vkey)

(* Every verdict of the block is a map (the shape update_skeleton_dict folds). *)
WellShaped(res) ==
    HasBlock(res) =>
        \A t \in 1..Len(BlockTypes(res)) :
            \A e \in 1..Len(BlockTypes(res)[t][2]) :
                \A n \in 1..Len(BlockTypes(res)[t][2][e]) :
                    BlockTypes(res)[t][2][e][n][2].isdict

GapTypes(res, schema) ==
    IF HasBlock(res) THEN {k \in DKeys(BlockTypes(res)) : ~TypeSupported(schema, k)} ELSE {}

(* C15: an outcome that references a type key the schema does not have or  *)
(* marks not-supported does not make the summarizer raise: the outcome is  *)
(* processed and its path is left without a record for that type.          *)
C15_SchemaGapDegradesGracefully ==
    [][\A res \in Outcomes :
          (spc = "loop" /\ result' = <<res>> /\ nresults' = nresults + 1
             /\ ~ExtractXpath(res.test_name).skip /\ WellShaped(res)
             /\ GapTypes(res, yaml) # {}) =>
              /\ spc' = "loop"
              /\ DHas(xpath_status', ExtractXpath(res.test_name).xpath)
              /\ \A k \in GapTypes(res, yaml) :
                    ~DHas(TypesOf(xpath_status', ExtractXpath(res.test_name).xpath), k)]_vars

(* C18: finalization leaves, for every path, no base type with more than   *)
(* one instance key at the top level; the instances of such a base type    *)
(* are all in multiple_data, one record per instance with its data as it   *)
(* was, the first under the bare base name; other records stay in place.   *)
Regrouped(pre, post) ==
    LET type_keys == KeySeq(pre.types)
        bases == {BaseType(type_keys[i]) : i \in 1..Len(type_keys)}
        dup == {b \in bases : Len(Instances(type_keys, b)) > 1}
        moved == {k \in DKeys(pre.types) : BaseType(k) \in dup}
    IN  /\ \A b \in bases : Len(Instances(KeySeq(post.types), b)) <= 1
        /\ \A k \in DKeys(post.types) : BaseType(k) \notin dup
        /\ \A k \in DKeys(pre.types) \ moved :
              DHas(post.types, k) /\ DGet(post.types, k) = DGet(pre.types, k)
        /\ Len(post.multiple_data) = Cardinality(moved)
        /\ \A b \in dup :
              LET instances == Instances(type_keys, b)
              IN  /\ DHas(post.multiple_data, b)
                  /\ DGet(post.multiple_data, b) = DGet(pre.types, instances[1])
                  /\ \A i \in 2..Len(instances) :
                        /\ DHas(post.multiple_data, instances[i])
                        /\ DGet(post.multiple_data, instances[i]) = DGet(pre.types, instances[i])

C18_FinalizationRegroups ==
    [][(spc = "loop" /\ spc' = "done") =>
          \A xpath \in Paths(xpath_status) :
              /\ DHas(xpath_status', xpath)
              /\ Regrouped(DGet(xpath_status, xpath), DGet(xpath_status', xpath))]_vars

(* A finalized path with three ONCE instances regrouped and STREAM left in place. *)
C18_Witness ==
    /\ spc = "done"
    /\ DHas(xpath_status, PathA)
    /\ KeySeq(DGet(xpath_status, PathA).multiple_data) = <<ONCE \o <<"_", "2">>, ONCE>>
    /\ DKeys(DGet(xpath_status, PathA).types) = {STREAM}
    /\ DGet(DGet(xpath_status, PathA).multiple_data, ONCE).full_path # NoPath

(* C20: a path whose top-level status has base FAIL (with or without the   *)
(* "(D)" and "(P-..)" suffixes) keeps base FAIL whatever outcome follows.  *)
FailStatuses ==
    {"FAIL" \o d \o p : d \in {"", "(D)"}, p \in {"", "(P-NS)", "(P-NA)"}}

C20_FailBaseSticky ==
    [][\A xpath \in Paths(xpath_status) :
          TopStatus(xpath_status, xpath) \in FailStatuses =>
              /\ DHas(xpath_status', xpath)
              /\ TopStatus(xpath_status', xpath) \in FailStatuses]_vars

(* C17: build_hierarchy leaves the "summary" entry of the report out: the   *)
(* tree holds no node created from it.                                      *)
C17_NoSummaryNode ==
    /\ Components(SummaryKey) \notin DOMAIN tree
    /\ \A node \in DOMAIN tree : tree[node] # ValueOf(SummaryKey)

(* C21: every path's top-level status is "NA" or base, then "(D)" exactly   *)
(* when the path is in the document's deviation list, then "(P-NS)" or      *)
(* "(P-NA)" exactly when the document's platform flag of the path is NS or  *)
(* NA; each suffix at most once, "(D)" first.                               *)
DeviationSuffix(doc, xpath) == IF xpath \in doc.deviations THEN "(D)" ELSE ""

PlatformSuffix(doc, xpath) ==
    IF DHas(doc.platform_support, xpath) /\ DGet(doc.platform_support, xpath) \in {"NS", "NA"}
    THEN "(P-" \o DGet(doc.platform_support, xpath) \o ")" ELSE ""

C21_StatusFormat ==
    \A xpath \in Paths(xpath_status) :
        \/ TopStatus(xpath_status, xpath) = "NA"
        \/ \E base \in {"PASS", "FAIL"} :
              TopStatus(xpath_status, xpath)
                  = base \o DeviationSuffix(tc_result, xpath) \o PlatformSuffix(tc_result, xpath)

(* Both suffixes are present on one path, and a second outcome went into it. *)
C21_Witness ==
    /\ nresults >= 2
    /\ DHas(xpath_status, PathA)
    /\ TopStatus(xpath_status, PathA) = "PASS(D)(P-NA)"

(***************************************************************************)
(* generate_skeleton_dict claims.                                          *)
(***************************************************************************)
(* The validation keys of the Compliance entries of a skeleton. *)
SkeletonKeys(skeleton) ==
    {skeleton[t][2].Compliance[e].vkey :
        <<t, e>> \in {x \in (1..Len(skeleton)) \X (1..8) : x[2] <= Len(skeleton[x[1]][2].Compliance)}}

(* The supported validations of the supported groups of the supported types in type_keys. *)
DeclaredKeys(data, type_keys) ==
    {v \in DKeys(data.validations) :
        /\ Lower(DGet(data.validations, v).current_status) = "supported"
        /\ \E t \in type_keys, g \in DKeys(data.gnmi_operation_validations) :
              /\ DHas(DGet(data.gnmi_operations, OpKey), t)
              /\ Lower(DGet(DGet(data.gnmi_operations, OpKey), t).current_status) = "supported"
              /\ \E i \in 1..Len(DGet(DGet(data.gnmi_operations, OpKey), t).operation_validations_sequence) :
                    DGet(DGet(data.gnmi_operations, OpKey), t).operation_validations_sequence[i] = g
              /\ Lower(DGet(data.gnmi_operation_validations, g).current_status) = "supported"
              /\ \E i \in 1..Len(DGet(data.gnmi_operation_validations, g).validations) :
                    DGet(data.gnmi_operation_validations, g).validations[i] = v}

(* C22: with a set of observed keys supplied, the empty set included, the   *)
(* skeleton has Compliance entries only for keys of that set; with None it  *)
(* has the full declared supported set.                                     *)
C22_ObservedKeyFilter ==
    skel_pc = "returned" =>
        IF skel_args.validations_in_json.none
        THEN SkeletonKeys(skel[1]) = DeclaredKeys(skel_args.data, skel_args.type_keys)
        ELSE SkeletonKeys(skel[1]) \subseteq skel_args.validations_in_json.keys

(* C23: when a document's summary is merged into an aggregate that already  *)
(* has one, a metric whose aggregated or document value does not convert to *)
(* an integer keeps its aggregated value, every other metric of the         *)
(* document is added, and the loop goes on to the next document.            *)
Convertible(summary, metric) == DHas(summary, metric) /\ ToInt(DGet(summary, metric)).ok

C23_CoercionFailureIsLocal ==
    [][\A file \in ResultFiles :
          (mpc = "merge" /\ batch' = Append(batch, file) /\ file.readable /\ ~file.raises
             /\ DHas(file.report, SummaryKey) /\ DHas(aggregated_report, SummaryKey)) =>
              /\ mpc' = "merge"
              /\ DHas(aggregated_report', SummaryKey)
              /\ \A metric \in DKeys(DGet(file.report, SummaryKey)) :
                    LET old == DGet(aggregated_report, SummaryKey)
                        new == DGet(aggregated_report', SummaryKey)
                        doc == DGet(file.report, SummaryKey)
                    IN  IF Convertible(old, metric) /\ Convertible(doc, metric)
                        THEN DGet(new, metric)
                               = IntVal(ToInt(DGet(old, metric)).n + ToInt(DGet(doc, metric)).n)
                        ELSE DHas(new, metric) = DHas(old, metric)
                             /\ (DHas(old, metric) => DGet(new, metric) = DGet(old, metric))]_vars

(* The second of three documents had a metric that does not convert; its    *)
(* other metrics and the third document were added.                         *)
C23_Witness ==
    /\ mpc = "merge"
    /\ Len(batch) = 3
    /\ batch[1].name = "d1" /\ batch[2].name = "d7" /\ batch[3].name = "d2"
    /\ DGet(DGet(aggregated_report, SummaryKey), "tests_total_validations") = IntVal(11)
    /\ DGet(DGet(aggregated_report, SummaryKey), "tests_pass") = IntVal(5)

(* C24: for reports whose keys may contain "->", every node of the tree     *)
(* that has a child node has _data "NA"; only nodes without children carry  *)
(* a record.                                                                *)
HasChild(t, node) ==
    \E child \in DOMAIN t : Len(child) = Len(node) + 1 /\ Prefix(child, Len(node)) = node

C24_NodesWithChildrenNA ==
    \A node \in DOMAIN tree : HasChild(tree, node) => tree[node] = NAData

(* C25: in every type-instance record of the report no two entries of the   *)
(* Compliance list carry the same validation key.                           *)
C25_ComplianceKeysUnique ==
    \A xpath \in Paths(xpath_status) :
        LET records == InstanceRecords(DGet(xpath_status, xpath))
        IN  \A r \in 1..Len(records) :
               \A e1, e2 \in 1..Len(records[r][2].Compliance) :
                  records[r][2].Compliance[e1].vkey = records[r][2].Compliance[e2].vkey => e1 = e2

(***************************************************************************)
(* Testcase report and log report claims.                                  *)
(***************************************************************************)
(* The document and raw outcome that row i of the testcase report was built from. *)
RowInput(i) == RowInputs(combined_data)[i]
RawPath(i) == extract_xpath(RowInput(i).res.test_name)
ListedDeviation(i) == RawPath(i) \in RowInput(i).doc.deviations
PlatformFlag(i) ==
    IF DHas(RowInput(i).doc.platform_support, RawPath(i))
    THEN DGet(RowInput(i).doc.platform_support, RawPath(i)) ELSE "<none>"

(* C26: the Deviation column of a row is "Yes" exactly when the path of the *)
(* outcome's raw test name is listed in the document's deviations, and the  *)
(* platform column shows the document's platform flag of that path.         *)
C26_DeviationAndPlatformByRawPath ==
    \A i \in 1..Len(detail_rows) :
        /\ detail_rows[i].deviation_field = "Yes" <=> ListedDeviation(i)
        /\ detail_rows[i].platform_val1
              = IF PlatformFlag(i) \in {"<none>", "NA"} THEN "Not Applicable" ELSE PlatformFlag(i)

(* C27: a failed outcome whose path is no deviation and has no platform     *)
(* flag NS or NA (no entry and NN included) has the result "FAIL"; the      *)
(* result of a failed outcome starts with PASS only for a deviation path or *)
(* an explicit flag NS or NA.                                               *)
StartsWithPass(s) == \E rest \in {"", "(D)"} \X {"Not Applicable", "S", "NS", "NN"} : s = "PASS" \o rest[1] \o "(P-" \o rest[2] \o ")"

C27_FailedOutcomeShowsFail ==
    \A i \in 1..Len(detail_rows) :
        (~RowInput(i).res.success /\ ~ListedDeviation(i) /\ PlatformFlag(i) \notin {"NS", "NA"}) =>
            /\ detail_rows[i].result_field = "FAIL"
            /\ ~StartsWithPass(detail_rows[i].result_field)

(* C28: the rendered overall result is "PASS" when every outcome of every   *)
(* document succeeded, and "FAIL" when some outcome failed on a path that   *)
(* is neither a deviation nor platform NS/NA.                               *)
AllSucceeded == \A i \in 1..Len(RowInputs(combined_data)) : RowInput(i).res.success
PureFailure(i) == ~RowInput(i).res.success /\ ~ListedDeviation(i) /\ PlatformFlag(i) \notin {"NS", "NA"}

C28_OverallResult ==
    rpc = "rendered" =>
        /\ AllSucceeded => overall_result = "PASS"
        /\ (\E i \in 1..Len(RowInputs(combined_data)) : PureFailure(i)) => overall_result = "FAIL"

(* C29: the identifier the testcase report gives the k-th occurrence of a   *)
(* test id is the key the log report gives the k-th block of that id, and   *)
(* in each report the identifiers of distinct occurrences differ.           *)
ReportIds(test_id) ==
    LET rows == SelectSeq(detail_rows, LAMBDA r : r.test_id = test_id)
    IN  [k \in 1..Len(rows) |-> rows[k].unique_test_id]

LogKeys(tc_id) == KeySeq(SelectSeq(testcase_data, LAMBDA e : e[2][1] = tc_id))

C29_LinksResolve ==
    /\ \A t \in {TestId(1), TestId(2)} :
          \A k \in 1..Len(ReportIds(t)) :
              k <= Len(LogKeys(t)) => ReportIds(t)[k] = LogKeys(t)[k]
    /\ \A i, j \in 1..Len(detail_rows) :
          detail_rows[i].unique_test_id = detail_rows[j].unique_test_id => i = j
    /\ \A i, j \in 1..Len(testcase_data) : testcase_data[i][1] = testcase_data[j][1] => i = j

(***************************************************************************)
(* Orchestration claim (integrated_report.main).                           *)
(***************************************************************************)
Failed(run) == run.returncode # 0 \/ ~run.wrote_html

(* C30: the generators run in the order log, testcase, yang tree; the       *)
(* consolidated report is written only after all three exited with 0 and    *)
(* their reports were resolved; once a generator exits non-zero or writes   *)
(* no HTML file no later generator runs, no consolidated report is written  *)
(* and the process ends with a non-zero status.                             *)
C30_OrchestrationOrder ==
    /\ Len(generators_run) <= Len(Generators)
    /\ \A i \in 1..Len(generators_run) : generators_run[i].script = Generators[i]
    /\ consolidated_report =>
          /\ Len(generators_run) = Len(Generators)
          /\ \A i \in 1..Len(generators_run) : generators_run[i].returncode = 0
          /\ \A g \in GeneratorSet : final_reports[g] # ""
    /\ \A i \in 1..Len(generators_run) :
          Failed(generators_run[i]) =>
              /\ i = Len(generators_run)
              /\ ~consolidated_report
              /\ opc \in {ResolveStage(generators_run[i].script), "exited"}
              /\ opc = "exited" => exit_status # 0

====
